---- MODULE Spec2Model ----
(***************************************************************************)
(* The asynchronous log pipeline of gopherd/log: the provider (printer)    *)
(* with its pending-entry queue, entry free list, background consumer      *)
(* loop and the Start / Shutdown / Print / Flush operations, and the       *)
(* level gate of the Logger in front of it.                                *)
(*                                                                         *)
(* Goroutines are modelled as threads with a program counter.  A step is   *)
(* one access to shared memory: an atomic operation, a channel operation,  *)
(* a call of the sink, or one critical section of queueMu or               *)
(* entryListLocker (each holds only queue or free-list operations and is   *)
(* taken as one step).  Goroutines are anonymous, so a new call is always  *)
(* issued by the lowest-numbered idle thread.                              *)
(***************************************************************************)
EXTENDS Integers, Sequences, FiniteSets, TLC

\* ---------------------------------------------------------------- bounds
NumThreads == 2
MaxStarts == 2
MaxShutdowns == 2
MaxOutputs == 2
MaxFlushes == 1
MaxLogs == 2
MaxFields == 2
MaxFormats == 1

Threads == 1..NumThreads

\* ------------------------------------------------------- program constants
LevelFatal == 1
LevelError == 2
LevelWarn == 3
LevelInfo == 4
LevelDebug == 5
LevelTrace == 6
Levels == LevelFatal..LevelTrace

\* putEntry drops an entry whose buffer is longer than this
MaxPooledLen == 256

\* Buffer lengths are abstracted to two representatives, one on each side of
\* the putEntry threshold.
SmallLen == 40
BigLen == 300
BufLens == {SmallLen, BigLen}

\* putContext drops a Context whose encoder has at least this capacity
MaxPooledCap == 1024

\* Levels handed to provider.Print by the threads of the pipeline model: the
\* pipeline only distinguishes fatal from non-fatal.
PipelineLevels == {LevelFatal, LevelInfo}

\* The pipeline does not look at the length of a record (only putEntry
\* does), so its specifications log records of one length.
PipelineLens == {SmallLen}

\* Strings are sequences of characters.  The message of the records.
Message == <<"m">>

VARIABLES
    async,      \* p.async / p.queue != nil, fixed by newProvider
    running,    \* p.running
    queue,      \* p.queue: pending entries, oldest first
    waiters,    \* goroutines blocked in p.cond.Wait, oldest first
    quit,       \* p.quit is closed
    wait,       \* p.wait is closed
    flush,      \* p.flush: buffered acknowledgment channels (capacity 1)
    acked,      \* acknowledgment channels that were closed (by requester)
    cons,       \* the consumer goroutines spawned by Start, in spawn order
    th,         \* the calling goroutines
    entryList,  \* p.entryList: the free list, head first
    nextEntry,  \* number of entries allocated so far
    writeLocker,\* holder of p.writeLocker, 0 if free
    inWrite,    \* goroutines currently inside Writer.Write
    sink,       \* what the Writer has been handed: Write and Close calls
    exited,     \* os.Exit(1) was called
    panicked,   \* a goroutine panicked (the process is gone)
    calls,      \* number of calls issued so far, by operation
    pushed,     \* history: record ids in the order they were pushed
    returned,   \* history: record ids whose Print call has returned
    loggerLevel,\* logger.level: the threshold of the Logger
    ctxPool,    \* ctxPool: the Contexts the pool holds, as they were put
    enc,        \* an encoder under test: its buf and the field appended last
    logger,     \* the Logger's printer and flags, and what Start did last
    logfile     \* a file writer: its counters and the size of its file

vars == <<logfile, enc, logger, loggerLevel, ctxPool,
          async, running, queue, waiters, quit, wait, flush, acked, cons, th,
          entryList, nextEntry, writeLocker, inWrite, sink, exited, panicked,
          calls, pushed, returned>>

\* ------------------------------------------------------------ entry, queue
NoEntry ==
    [id |-> 0, rec |-> 0, level |-> 0, len |-> 0, trace |-> FALSE,
     text |-> <<>>, header |-> 0, alias |-> 0, said |-> <<>>]

\* new(entry).  `alias` names the Context whose encoder the entry's bytes
\* share (0: the entry has bytes of its own), `said` is history: the bytes
\* that output was given for the record
NewEntry(id) ==
    [id |-> id, rec |-> 0, level |-> 0, len |-> 0, trace |-> FALSE,
     text |-> <<>>, header |-> 0, alias |-> 0, said |-> <<>>]

\* entry.reset: the buffer is truncated to zero length
EntryReset(e) ==
    [e EXCEPT !.rec = 0, !.len = 0, !.trace = FALSE, !.text = <<>>,
              !.alias = 0]

\* queue.push appends at the tail; the caller reads the new size
QueuePush(q, e) == Append(q, e)

QueueSize(q) == Len(q)

\* queue.popAll detaches the whole chain (the queue is empty afterwards)
QueuePopAll(q) == q

\* cond.Signal wakes the goroutine that has waited longest, if there is one
SignalCons(cs, ws) ==
    IF ws = <<>> THEN cs ELSE [cs EXCEPT ![Head(ws)].pc = "woken"]

SignalWaiters(ws) == IF ws = <<>> THEN ws ELSE Tail(ws)

\* ------------------------------------------------------------- entry pool
\* a getEntry that hands out the head of the free list as it is (not the
\* program's)
GetEntryNoReset(list, n) ==
    IF list # <<>> THEN Head(list) ELSE NewEntry(n + 1)

\* getEntry: pop the head of the free list and reset it, or allocate
GetEntryFromList(list, n) ==
    IF list # <<>> THEN EntryReset(Head(list)) ELSE NewEntry(n + 1)

\* a getEntry that leaves the entry it hands out on the free list (not the
\* program's)
GetEntryRestKeepsHead(list) == list

GetEntryRest(list) == IF list # <<>> THEN Tail(list) ELSE list

GetEntryCount(list, n) == IF list # <<>> THEN n ELSE n + 1

\* a putEntry that retains every entry (not the program's)
PutEntryKeepsAll(list, e) == <<e>> \o list

\* a putEntry that links the entry at the far end (not the program's)
PutEntryAtTail(list, e) ==
    IF e.len > MaxPooledLen THEN list ELSE list \o <<e>>

\* putEntry: entries with more than 256 bytes are dropped
PutEntry(list, e) == IF e.len > MaxPooledLen THEN list ELSE <<e>> \o list

\* ------------------------------------------------------------------- init
\* a nil *Context; a Context that exists has a number, id
NilContext == [live |-> FALSE, level |-> 0, buf |-> <<>>, id |-> 0]

\* no arguments of Print recorded
NoArgs ==
    [level |-> 0, flags |-> 0, file |-> <<>>, line |-> 0, parent |-> <<>>,
     sub |-> FALSE, msg |-> <<>>]

\* no Logger call made yet
NoLog == [level |-> 0, gated |-> FALSE]

IdleThread ==
    [pc |-> "idle", e |-> NoEntry, fatal |-> FALSE, ret |-> "none",
     resp |-> 0, snap |-> {}, rec |-> 0, ctx |-> NilContext, n |-> 0,
     log |-> NoLog, werr |-> "none", args |-> NoArgs, starting |-> FALSE]

\* the goroutine started by go p.run()
NewConsumer ==
    [pc |-> "top", batch |-> <<>>, mode |-> "run", resp |-> 0,
     werr |-> "none"]

\* who calls the sink: a calling goroutine t, or consumer c
ThreadActor(t) == t
ConsActor(c) == NumThreads + c

\* the bytes that the encoder of Context id holds now
EncoderBytes(id) ==
    IF \E t \in DOMAIN th : th[t].ctx.id = id
    THEN (CHOOSE c \in {th[t].ctx : t \in DOMAIN th} : c.id = id).buf
    ELSE IF \E i \in 1..Len(ctxPool) : ctxPool[i].id = id
         THEN ctxPool[CHOOSE i \in 1..Len(ctxPool) : ctxPool[i].id = id].buf
         ELSE <<>>

\* e.buf.Bytes() as Writer.Write reads it: the entry's own bytes, or, for
\* bytes shared with a Context's encoder, what that encoder holds now, up
\* to the entry's length
Received(e) ==
    IF e.alias = 0 THEN e.text
    ELSE SubSeq(EncoderBytes(e.alias), 1,
                IF Len(EncoderBytes(e.alias)) < Len(e.text)
                THEN Len(EncoderBytes(e.alias)) ELSE Len(e.text))

WriteEvent(e, by) ==
    [k |-> "Write", rec |-> e.rec, level |-> e.level, len |-> e.len,
     trace |-> e.trace, text |-> Received(e), header |-> e.header,
     by |-> by, said |-> e.said]

CloseEvent(by) ==
    [k |-> "Close", rec |-> 0, level |-> 0, len |-> 0, trace |-> FALSE,
     text |-> <<>>, header |-> 0, by |-> by, said |-> <<>>]

\* no field appended yet
NoField ==
    [kind |-> "none", key |-> <<>>, start |-> 0,
     value |-> [type |-> "nil", i |-> 0, j |-> 0, s |-> <<>>, neg |-> FALSE,
                methods |-> {}, panics |-> FALSE]]

\* an encoder with an empty buf; `last` describes the field appended last
\* (its builder method, key, value and where its bytes start), `panicked`
\* tells that a builder call panicked
NewEncoder == [buf |-> <<>>, n |-> 0, last |-> NoField, panicked |-> FALSE]

\* NewLogger: printer is the empty printer (number 0), flags are 0; the
\* other fields record what the calls of Logger.Start did: the printers
\* made, shut down and started, the writers closed, the last call's options
\* and result
NewLogger ==
    [printer |-> 0, flags |-> 0, made |-> 0, shut |-> <<>>,
     started |-> <<>>, closed |-> <<>>, opts |-> <<>>, ret |-> "none",
     n |-> 0]

\* a file writer before newFile's first rotate: written counts the bytes
\* since it was last set to zero, size is the length of the current log file
\* (0 while none is open), files the number of files opened, writes the
\* number of Write calls
NoFile ==
    [written |-> 0, size |-> 0, files |-> 0, writes |-> 0, ticks |-> 0,
     closed |-> FALSE]

InitProvider ==
    /\ logfile = NoFile
    /\ enc = NewEncoder
    /\ logger = NewLogger
    /\ async \in BOOLEAN
    /\ running = 0
    /\ queue = <<>>
    /\ waiters = <<>>
    /\ quit = FALSE
    /\ wait = FALSE
    /\ flush = <<>>
    /\ acked = {}
    /\ cons = <<>>
    /\ th = [t \in Threads |-> IdleThread]
    /\ entryList = <<NewEntry(1)>>
    /\ nextEntry = 1
    /\ writeLocker = 0
    /\ inWrite = {}
    /\ sink = <<>>
    /\ exited = FALSE
    /\ panicked = FALSE
    /\ calls = [start |-> 0, shutdown |-> 0, output |-> 0, flush |-> 0,
                logger |-> 0]
    /\ pushed = <<>>
    /\ returned = {}
    /\ ctxPool = <<>>

\* NewLogger: the threshold is LevelInfo
Init == InitProvider /\ loggerLevel = LevelInfo

Alive == ~exited /\ ~panicked

\* a new call is issued by the lowest-numbered idle goroutine
CanCall(t) ==
    /\ Alive
    /\ th[t].pc = "idle"
    /\ \A u \in Threads : u < t => th[u].pc # "idle"

At(t, pc) == Alive /\ th[t].pc = pc

ConsAt(c, pc) == Alive /\ c \in 1..Len(cons) /\ cons[c].pc = pc

\* ------------------------------------------------------------------ Start
\* a Start without the compare-and-swap (not the program's)
StartSpawnsAlways(isAsync, r) == isAsync

\* Start spawns the consumer iff the queue exists and the compare-and-swap
\* of running from 0 to 1 succeeds
StartSpawns(isAsync, r) == isAsync /\ r = 0

\* a Start that reports no error when the provider is running (not the
\* program's)
StartResultSilent(isAsync, r) == IF ~isAsync THEN "errNilQueue" ELSE "nil"

\* what Start returns: errors.New("queue is nil"),
\* errors.New("provider already running"), or nil
StartResult(isAsync, r) ==
    IF ~isAsync THEN "errNilQueue" ELSE IF r # 0 THEN "errRunning" ELSE "nil"

Start(t) ==
    /\ CanCall(t)
    /\ calls.start < MaxStarts
    /\ calls' = [calls EXCEPT !.start = @ + 1]
    /\ th' = [th EXCEPT ![t].ret = StartResult(async, running)]
    /\ IF StartSpawns(async, running)
         THEN /\ running' = 1
              /\ cons' = Append(cons, NewConsumer)
         ELSE UNCHANGED <<running, cons>>
    /\ UNCHANGED <<logfile, enc, logger, loggerLevel, ctxPool,
                   async, queue, waiters, quit, wait, flush, acked, entryList,
                   nextEntry, writeLocker, inWrite, sink, exited, panicked,
                   pushed, returned>>

\* --------------------------------------------------------------- Shutdown
\* Shutdown goes on past its two early returns iff the queue exists and the
\* compare-and-swap of running from 1 to 0 succeeds
ShutdownWins(isAsync, r) == isAsync /\ r = 1

\* where a goroutine continues when Shutdown returns: Print calls os.Exit
AfterShutdown(isFatal) == IF isFatal THEN "exit" ELSE "idle"

\* the same for a goroutine tr that may be inside Logger.Start, which goes
\* on to install the new printer
ShutdownReturnsTo(tr) ==
    IF tr.starting THEN "install" ELSE AfterShutdown(tr.fatal)

ShutdownBody(t) ==
    IF ShutdownWins(async, running)
    THEN /\ running' = 0
         /\ th' = [th EXCEPT ![t].pc = "closeQuit", ![t].snap = returned,
                             ![t].ret = "none"]
    ELSE /\ th' = [th EXCEPT ![t].pc = ShutdownReturnsTo(th[t]),
                             ![t].snap = returned, ![t].ret = "noop"]
         /\ UNCHANGED running

Shutdown(t) ==
    /\ CanCall(t)
    /\ calls.shutdown < MaxShutdowns
    /\ calls' = [calls EXCEPT !.shutdown = @ + 1]
    /\ ShutdownBody(t)
    /\ UNCHANGED <<logfile, enc, logger, loggerLevel, ctxPool,
                   async, queue, waiters, quit, wait, flush, acked, cons,
                   entryList, nextEntry, writeLocker, inWrite, sink, exited,
                   panicked, pushed, returned>>

\* close(p.quit): closing a closed channel panics
ShutdownCloseQuit(t) ==
    /\ At(t, "closeQuit")
    /\ IF quit
         THEN /\ panicked' = TRUE
              /\ UNCHANGED <<quit, th>>
         ELSE /\ quit' = TRUE
              /\ th' = [th EXCEPT ![t].pc = "signal"]
              /\ UNCHANGED panicked
    /\ UNCHANGED <<logfile, enc, logger, loggerLevel, ctxPool,
                   async, running, queue, waiters, wait, flush, acked, cons,
                   entryList, nextEntry, writeLocker, inWrite, sink, exited,
                   calls, pushed, returned>>

\* p.cond.Signal()
ShutdownSignal(t) ==
    /\ At(t, "signal")
    /\ cons' = SignalCons(cons, waiters)
    /\ waiters' = SignalWaiters(waiters)
    /\ th' = [th EXCEPT ![t].pc = "recvWait"]
    /\ UNCHANGED <<logfile, enc, logger, loggerLevel, ctxPool,
                   async, running, queue, quit, wait, flush, acked, entryList,
                   nextEntry, writeLocker, inWrite, sink, exited, panicked,
                   calls, pushed, returned>>

\* a receive that does not block (not the program's)
ReceivesAtOnce(closed) == TRUE

\* a receive from a channel on which nobody sends returns iff the channel
\* is closed
Receives(closed) == closed

\* <-p.wait: blocks until the consumer has closed p.wait
ShutdownRecvWait(t) ==
    /\ At(t, "recvWait")
    /\ Receives(wait)
    /\ th' = [th EXCEPT ![t].pc = "close"]
    /\ UNCHANGED <<logfile, enc, logger, loggerLevel, ctxPool,
                   async, running, queue, waiters, quit, wait, flush, acked,
                   cons, entryList, nextEntry, writeLocker, inWrite, sink,
                   exited, panicked, calls, pushed, returned>>

\* p.writer.Close(); return nil
ShutdownClose(t) ==
    /\ At(t, "close")
    /\ sink' = Append(sink, CloseEvent(ThreadActor(t)))
    /\ th' = [th EXCEPT ![t].pc = ShutdownReturnsTo(th[t]),
                        ![t].ret = "closed"]
    /\ UNCHANGED <<logfile, enc, logger, loggerLevel, ctxPool,
                   async, running, queue, waiters, quit, wait, flush, acked,
                   cons, entryList, nextEntry, writeLocker, inWrite, exited,
                   panicked, calls, pushed, returned>>

\* ------------------------------------------------------ Print and output
\* output: the record is appended to whatever the entry's buffer holds
\* (header, prefix, message, newline) and a fatal record gets the
\* stack-trace block
Format(e, rec, level, len, text) ==
    [e EXCEPT !.rec = rec, !.level = level, !.len = @ + len,
              !.trace = @ \/ (level = LevelFatal), !.text = @ \o text,
              !.said = text]

\* the goroutine inside output, holding the entry it has formatted
InOutput(tr, e) ==
    [tr EXCEPT !.pc = "load", !.e = e, !.rec = e.rec,
               !.fatal = (e.level = LevelFatal), !.ret = "none",
               !.werr = "none"]

\* Print -> output -> formatHeader -> getEntry, then the buffer is filled
OutputGetEntryUpTo(t, levels, lens, max) ==
    /\ CanCall(t)
    /\ calls.output < max
    /\ calls' = [calls EXCEPT !.output = @ + 1]
    /\ \E level \in levels, len \in lens :
          th' = [th EXCEPT
                   ![t] = InOutput(@, Format(GetEntryFromList(entryList,
                                                              nextEntry),
                                             calls.output + 1, level, len,
                                             Message))]
    /\ entryList' = GetEntryRest(entryList)
    /\ nextEntry' = GetEntryCount(entryList, nextEntry)
    /\ UNCHANGED <<logfile, enc, logger, loggerLevel, ctxPool,
                   async, running, queue, waiters, quit, wait, flush, acked,
                   cons, writeLocker, inWrite, sink, exited, panicked, pushed,
                   returned>>

\* Print called up to MaxOutputs times
OutputGetEntry(t, levels, lens) ==
    OutputGetEntryUpTo(t, levels, lens, MaxOutputs)

\* p.queue != nil && atomic.LoadInt32(&p.running) != 0
UseQueue(isAsync, r) == isAsync /\ r # 0

OutputLoad(t) ==
    /\ At(t, "load")
    /\ th' = [th EXCEPT ![t].pc = IF UseQueue(async, running)
                                  THEN "push" ELSE "syncWrite"]
    /\ UNCHANGED <<logfile, enc, logger, loggerLevel, ctxPool,
                   async, running, queue, waiters, quit, wait, flush, acked,
                   cons, entryList, nextEntry, writeLocker, inWrite, sink,
                   exited, panicked, calls, pushed, returned>>

\* where a goroutine continues when output returns: a fatal Print goes on
\* to Shutdown, any other Print returns,
\* and Context.Print goes on to putContext
AfterOutput(isFatal, viaContext) ==
    IF isFatal THEN "fatal" ELSE IF viaContext THEN "putContext" ELSE "idle"

\* a Print that hands the sink's error to its caller (not the program's)
PrintResultPropagates(werr) ==
    IF werr = "error" THEN "writeErr" ELSE "printed"

\* what a Print that returns gives its caller: Print and output have no
\* result, and writeEntry discards what Writer.Write returned
PrintResult(werr) == "printed"

\* the goroutine when output returns
OutputReturns(tr) ==
    [tr EXCEPT !.pc = AfterOutput(tr.fatal, tr.ctx.live), !.e = NoEntry,
               !.ret = IF tr.fatal THEN "none" ELSE PrintResult(tr.werr)]

ReturnedAfterOutput(t) ==
    IF th[t].fatal THEN returned ELSE returned \cup {th[t].e.rec}

\* a producer that never signals (not the program's)
PushSignalsNever(size) == FALSE

\* the signal of output: only when the push made the queue's size 1
PushSignals(size) == size = 1

\* a consumer that writes its batch before it unlocks (not the program's)
QueueLockHeldInWrite(pc) == pc \in {"write", "inWrite"}

\* the positions between steps at which a consumer holds p.queueMu: none,
\* run and flushAll unlock before they call writeEntries, and cond.Wait
\* releases the lock while it waits
QueueLockHeldAt(pc) == pc \in {}

\* p.queueMu can be taken: no consumer holds it
QueueLockFree == \A c \in 1..Len(cons) : ~QueueLockHeldAt(cons[c].pc)

\* Lock; if p.queue.push(e) == 1 { p.cond.Signal() }; Unlock
OutputPush(t) ==
    /\ At(t, "push")
    /\ QueueLockFree
    /\ queue' = QueuePush(queue, th[t].e)
    /\ IF PushSignals(QueueSize(queue'))
         THEN /\ cons' = SignalCons(cons, waiters)
              /\ waiters' = SignalWaiters(waiters)
         ELSE UNCHANGED <<cons, waiters>>
    /\ pushed' = Append(pushed, th[t].e.rec)
    /\ returned' = ReturnedAfterOutput(t)
    /\ th' = [th EXCEPT ![t] = OutputReturns(@)]
    /\ UNCHANGED <<logfile, enc, logger, loggerLevel, ctxPool,
                   async, running, quit, wait, flush, acked, entryList,
                   nextEntry, writeLocker, inWrite, sink, exited, panicked,
                   calls>>

\* a synchronous path that does not wait for the mutex (not the program's)
WriteLockerIgnored(holder) == TRUE

\* p.writeLocker.Lock() goes through when no goroutine holds the mutex
WriteLockerFree(holder) == holder = 0

\* p.writeLocker.Lock(); writeEntry calls p.writer.Write
OutputSyncWrite(t) ==
    /\ At(t, "syncWrite")
    /\ WriteLockerFree(writeLocker)
    /\ writeLocker' = t
    /\ sink' = Append(sink, WriteEvent(th[t].e, ThreadActor(t)))
    /\ inWrite' = inWrite \cup {ThreadActor(t)}
    /\ th' = [th EXCEPT ![t].pc = "syncRet"]
    /\ UNCHANGED <<logfile, enc, logger, loggerLevel, ctxPool,
                   async, running, queue, waiters, quit, wait, flush, acked,
                   cons, entryList, nextEntry, exited, panicked, calls, pushed,
                   returned>>

\* what Writer.Write may return: nil or an error
WriteResults == {"nil", "error"}

\* a sink whose Write always succeeds
WriteSucceeds == {"nil"}

\* Write returns one of results; putEntry; p.writeLocker.Unlock()
OutputSyncRetWith(t, results) ==
    /\ At(t, "syncRet")
    /\ inWrite' = inWrite \ {ThreadActor(t)}
    /\ entryList' = PutEntry(entryList, th[t].e)
    /\ writeLocker' = 0
    /\ returned' = ReturnedAfterOutput(t)
    /\ \E res \in results :
          th' = [th EXCEPT ![t] = OutputReturns([@ EXCEPT !.werr = res])]
    /\ UNCHANGED <<logfile, enc, logger, loggerLevel, ctxPool,
                   async, running, queue, waiters, quit, wait, flush, acked,
                   cons, nextEntry, sink, exited, panicked, calls, pushed>>

OutputSyncRet(t) == OutputSyncRetWith(t, WriteSucceeds)

\* Print, level == LevelFatal: p.Shutdown()
FatalShutdown(t) ==
    /\ At(t, "fatal")
    /\ ShutdownBody(t)
    /\ UNCHANGED <<logfile, enc, logger, loggerLevel, ctxPool,
                   async, queue, waiters, quit, wait, flush, acked, cons,
                   entryList, nextEntry, writeLocker, inWrite, sink, exited,
                   panicked, calls, pushed, returned>>

\* Print, level == LevelFatal: os.Exit(1)
Exit(t) ==
    /\ At(t, "exit")
    /\ exited' = TRUE
    /\ th' = [th EXCEPT ![t].pc = "exited"]
    /\ UNCHANGED <<logfile, enc, logger, loggerLevel, ctxPool,
                   async, running, queue, waiters, quit, wait, flush, acked,
                   cons, entryList, nextEntry, writeLocker, inWrite, sink,
                   panicked, calls, pushed, returned>>

\* ------------------------------------------------------------------ Flush
\* Flush is called; wait := make(chan struct{})
Flush(t) ==
    /\ CanCall(t)
    /\ calls.flush < MaxFlushes
    /\ calls' = [calls EXCEPT !.flush = @ + 1]
    /\ th' = [th EXCEPT ![t].pc = "flushSend", ![t].resp = calls.flush + 1,
                        ![t].snap = {pushed[i] : i \in 1..Len(pushed)},
                        ![t].ret = "none"]
    /\ UNCHANGED <<logfile, enc, logger, loggerLevel, ctxPool,
                   async, running, queue, waiters, quit, wait, flush, acked,
                   cons, entryList, nextEntry, writeLocker, inWrite, sink,
                   exited, panicked, pushed, returned>>

\* p.flush <- wait: p.flush has capacity 1, and is nil (blocks for ever) when
\* the printer is not async
FlushSend(t) ==
    /\ At(t, "flushSend")
    /\ async
    /\ Len(flush) < 1
    /\ flush' = Append(flush, th[t].resp)
    /\ th' = [th EXCEPT ![t].pc = "flushSignal"]
    /\ UNCHANGED <<logfile, enc, logger, loggerLevel, ctxPool,
                   async, running, queue, waiters, quit, wait, acked, cons,
                   entryList, nextEntry, writeLocker, inWrite, sink, exited,
                   panicked, calls, pushed, returned>>

\* p.cond.Signal()
FlushSignal(t) ==
    /\ At(t, "flushSignal")
    /\ cons' = SignalCons(cons, waiters)
    /\ waiters' = SignalWaiters(waiters)
    /\ th' = [th EXCEPT ![t].pc = "flushRecv"]
    /\ UNCHANGED <<logfile, enc, logger, loggerLevel, ctxPool,
                   async, running, queue, quit, wait, flush, acked, entryList,
                   nextEntry, writeLocker, inWrite, sink, exited, panicked,
                   calls, pushed, returned>>

\* <-wait: blocks until the consumer has closed the acknowledgment
FlushRecv(t) ==
    /\ At(t, "flushRecv")
    /\ th[t].resp \in acked
    /\ th' = [th EXCEPT ![t].pc = "idle", ![t].ret = "flushed"]
    /\ UNCHANGED <<logfile, enc, logger, loggerLevel, ctxPool,
                   async, running, queue, waiters, quit, wait, flush, acked,
                   cons, entryList, nextEntry, writeLocker, inWrite, sink,
                   exited, panicked, calls, pushed, returned>>

\* ------------------------------------------------------ the consumer loop
\* what follows the writing of a drained batch: the run loop goes on to
\* consumeSignals, a flush request is acknowledged, a quit closes p.wait
AfterWrite(mode) ==
    CASE mode = "run" -> "select"
      [] mode = "flush" -> "closeResp"
      [] mode = "quit" -> "closeWait"

AfterPop(batch, mode) == IF batch = <<>> THEN AfterWrite(mode) ELSE "write"

\* the run loop waits iff the queue is empty when it looks
RunWaits(size) == size = 0

\* run: Lock; if p.queue.size() == 0 { p.cond.Wait() } ...
\* with a non-empty queue: entries := p.queue.popAll(); Unlock
RunTop(c) ==
    /\ ConsAt(c, "top")
    /\ IF RunWaits(QueueSize(queue))
         THEN /\ waiters' = Append(waiters, c)
              /\ cons' = [cons EXCEPT ![c].pc = "waiting"]
              /\ UNCHANGED queue
         ELSE /\ cons' = [cons EXCEPT ![c].batch = QueuePopAll(queue),
                                      ![c].pc = "write"]
              /\ queue' = <<>>
              /\ UNCHANGED waiters
    /\ UNCHANGED <<logfile, enc, logger, loggerLevel, ctxPool,
                   async, running, quit, wait, flush, acked, th, entryList,
                   nextEntry, writeLocker, inWrite, sink, exited, panicked,
                   calls, pushed, returned>>

\* run: p.cond.Wait() returns (signalled); entries := p.queue.popAll(); Unlock
RunWoken(c) ==
    /\ ConsAt(c, "woken")
    /\ cons' = [cons EXCEPT ![c].batch = QueuePopAll(queue),
                            ![c].pc = AfterPop(QueuePopAll(queue), "run")]
    /\ queue' = <<>>
    /\ UNCHANGED <<logfile, enc, logger, loggerLevel, ctxPool,
                   async, running, waiters, quit, wait, flush, acked, th,
                   entryList, nextEntry, writeLocker, inWrite, sink, exited,
                   panicked, calls, pushed, returned>>

\* writeEntries -> writeEntry: p.writer.Write is called with the next entry
WriteEntry(c) ==
    /\ ConsAt(c, "write")
    /\ sink' = Append(sink, WriteEvent(Head(cons[c].batch), ConsActor(c)))
    /\ inWrite' = inWrite \cup {ConsActor(c)}
    /\ cons' = [cons EXCEPT ![c].pc = "inWrite"]
    /\ UNCHANGED <<logfile, enc, logger, loggerLevel, ctxPool,
                   async, running, queue, waiters, quit, wait, flush, acked,
                   th, entryList, nextEntry, writeLocker, exited, panicked,
                   calls, pushed, returned>>

\* a loop that does not move on to the next entry (not the program's)
RestOfBatchRepeats(batch) == batch

\* writeEntries: for _, e := range entries visits each entry once, in order
RestOfBatch(batch) == Tail(batch)

\* writeEntry: Write returns one of results, which is discarded;
\* p.putEntry(e); on to the next entry
WriteEntryRetWith(c, results) ==
    /\ ConsAt(c, "inWrite")
    /\ inWrite' = inWrite \ {ConsActor(c)}
    /\ entryList' = PutEntry(entryList, Head(cons[c].batch))
    /\ \E res \in results :
          cons' = [cons EXCEPT ![c].batch = RestOfBatch(cons[c].batch),
                               ![c].pc = AfterPop(RestOfBatch(cons[c].batch),
                                                  cons[c].mode),
                               ![c].werr = res]
    /\ UNCHANGED <<logfile, enc, logger, loggerLevel, ctxPool,
                   async, running, queue, waiters, quit, wait, flush, acked,
                   th, nextEntry, writeLocker, sink, exited, panicked, calls,
                   pushed, returned>>

WriteEntryRet(c) == WriteEntryRetWith(c, WriteSucceeds)

\* consumeSignals: case resp := <-p.flush
SelectFlush(c) ==
    /\ ConsAt(c, "select")
    /\ flush # <<>>
    /\ flush' = Tail(flush)
    /\ cons' = [cons EXCEPT ![c].resp = Head(flush), ![c].mode = "flush",
                            ![c].pc = "flushAll"]
    /\ UNCHANGED <<logfile, enc, logger, loggerLevel, ctxPool,
                   async, running, queue, waiters, quit, wait, acked, th,
                   entryList, nextEntry, writeLocker, inWrite, sink, exited,
                   panicked, calls, pushed, returned>>

\* consumeSignals: case <-p.quit
SelectQuit(c) ==
    /\ ConsAt(c, "select")
    /\ quit
    /\ cons' = [cons EXCEPT ![c].mode = "quit", ![c].pc = "flushAll"]
    /\ UNCHANGED <<logfile, enc, logger, loggerLevel, ctxPool,
                   async, running, queue, waiters, quit, wait, flush, acked,
                   th, entryList, nextEntry, writeLocker, inWrite, sink,
                   exited, panicked, calls, pushed, returned>>

\* consumeSignals: default (no case is ready): return false, and run loops
SelectDefault(c) ==
    /\ ConsAt(c, "select")
    /\ flush = <<>>
    /\ ~quit
    /\ cons' = [cons EXCEPT ![c].pc = "top"]
    /\ UNCHANGED <<logfile, enc, logger, loggerLevel, ctxPool,
                   async, running, queue, waiters, quit, wait, flush, acked,
                   th, entryList, nextEntry, writeLocker, inWrite, sink,
                   exited, panicked, calls, pushed, returned>>

\* flushAll: Lock; entries := p.queue.popAll(); Unlock
FlushAll(c) ==
    /\ ConsAt(c, "flushAll")
    /\ cons' = [cons EXCEPT ![c].batch = QueuePopAll(queue),
                            ![c].pc = AfterPop(QueuePopAll(queue),
                                               cons[c].mode)]
    /\ queue' = <<>>
    /\ UNCHANGED <<logfile, enc, logger, loggerLevel, ctxPool,
                   async, running, waiters, quit, wait, flush, acked, th,
                   entryList, nextEntry, writeLocker, inWrite, sink, exited,
                   panicked, calls, pushed, returned>>

\* consumeSignals: close(resp); continue
CloseResp(c) ==
    /\ ConsAt(c, "closeResp")
    /\ acked' = acked \cup {cons[c].resp}
    /\ cons' = [cons EXCEPT ![c].resp = 0, ![c].mode = "run",
                            ![c].pc = "select"]
    /\ UNCHANGED <<logfile, enc, logger, loggerLevel, ctxPool,
                   async, running, queue, waiters, quit, wait, flush, th,
                   entryList, nextEntry, writeLocker, inWrite, sink, exited,
                   panicked, calls, pushed, returned>>

\* consumeSignals: close(p.wait); return true, and run ends.  Closing a
\* closed channel panics.
CloseWait(c) ==
    /\ ConsAt(c, "closeWait")
    /\ IF wait
         THEN /\ panicked' = TRUE
              /\ UNCHANGED <<wait, cons>>
         ELSE /\ wait' = TRUE
              /\ cons' = [cons EXCEPT ![c].pc = "done"]
              /\ UNCHANGED panicked
    /\ UNCHANGED <<logfile, enc, logger, loggerLevel, ctxPool,
                   async, running, queue, waiters, quit, flush, acked, th,
                   entryList, nextEntry, writeLocker, inWrite, sink, exited,
                   calls, pushed, returned>>

\* ---------------------------------------------------------------- encoder
\* the characters of the keys, values and messages that are logged
Letters == {"a", "b", "k", "m"}

Digit(d) == <<"0", "1", "2", "3", "4", "5", "6", "7", "8", "9">>[d + 1]

Digits == {Digit(d) : d \in 0..9}

isIdentRune(ch) ==
    ch \in {"_", "-", ".", "#", "$", "/"} \cup Letters \cup Digits

\* an isIdent that takes the empty key for an identifier (not the program's)
isIdentAllowsEmpty(s) == \A i \in 1..Len(s) : isIdentRune(s[i])

isIdent(s) == Len(s) > 0 /\ \A i \in 1..Len(s) : isIdentRune(s[i])

\* strconv.AppendQuote: the double quote and the backslash are escaped
\* (every other character logged here is printable ASCII)
RECURSIVE Escaped(_)
Escaped(s) ==
    IF s = <<>> THEN <<>>
    ELSE (IF Head(s) \in {"\"", "\\"} THEN <<"\\", Head(s)>> ELSE <<Head(s)>>)
         \o Escaped(Tail(s))

encodeString(buf, s) == (Append(buf, "\"") \o Escaped(s)) \o <<"\"">>

\* strconv.AppendInt, base 10
RECURSIVE DecimalDigits(_)
DecimalDigits(n) ==
    IF n < 10 THEN <<Digit(n)>>
    ELSE Append(DecimalDigits(n \div 10), Digit(n % 10))

encodeInt(buf, i) ==
    buf \o (IF i < 0 THEN <<"-">> \o DecimalDigits(0 - i) ELSE DecimalDigits(i))

\* encodeKey: '{' opens the field block, ',' separates fields; a key that is
\* an identifier is written bare, any other key is quoted
encodeKey(buf, key) ==
    (Append(buf, IF Len(buf) = 0 THEN "{" ELSE ",")
        \o (IF isIdent(key) THEN key ELSE encodeString(<<>>, key)))
    \o <<":">>

\* finish closes the field block if there is one
finish(buf) == IF Len(buf) > 0 THEN buf \o <<"}", " ">> ELSE buf

writeString(buf, s) == buf \o s

\* ------------------------------------------------------- encoder: scalars
\* A value handed to a builder method: its dynamic type, its payload (i and
\* j are numbers, s is a string or a slice), the methods its type has, and
\* whether calling a method of it panics (a nil pointer receiver that is
\* dereferenced, or a method that panics by itself).
Value(type, i, j, s) ==
    [type |-> type, i |-> i, j |-> j, s |-> s, neg |-> FALSE,
     methods |-> {}, panics |-> FALSE]

encodeNil(buf) == buf \o <<"n", "i", "l">>

\* strconv.AppendBool
encodeBool(buf, v) ==
    buf \o (IF v THEN <<"t", "r", "u", "e">> ELSE <<"f", "a", "l", "s", "e">>)

\* strconv.AppendUint, base 10
encodeUint(buf, i) == buf \o DecimalDigits(i)

\* Floating-point numbers are decimal numbers with one fractional digit,
\* kept as their number of tenths: 15 is 1.5 and -20 is -2.
\* strconv.AppendFloat(buf, f, 'f', -1, bits): the shortest decimal text
encodeFloat(buf, f) ==
    LET a == IF f < 0 THEN 0 - f ELSE f
    IN  ((buf \o (IF f < 0 THEN <<"-">> ELSE <<>>)) \o DecimalDigits(a \div 10))
        \o (IF a % 10 # 0 THEN <<".", Digit(a % 10)>> ELSE <<>>)

\* an encodeComplex that always writes both parts (not the program's)
encodeComplexBothParts(buf, r, i) ==
    Append(encodeFloat(Append(encodeFloat(buf, r), "+"), i), "i")

\* encodeComplex: the real part if it is not zero, then the imaginary part
\* and 'i' if it is not zero (after a '+' if there is a real part), and '0'
\* if both are zero
encodeComplex(buf, r, i) ==
    LET real == IF r # 0 THEN encodeFloat(buf, r) ELSE buf
    IN  IF i # 0
        THEN Append(encodeFloat(IF r # 0 THEN Append(real, "+") ELSE real, i),
                    "i")
        ELSE IF r = 0 THEN Append(real, "0") ELSE real

\* the dynamic types that the type switch of encodeScalar knows
IntTypes == {"int", "int8", "int16", "int32", "int64"}

UintTypes == {"uint", "uint8", "uint16", "uint32", "uint64"}

FloatTypes == {"float32", "float64"}

ComplexTypes == {"complex64", "complex128"}

\* encodeScalar: the encoding of a value of a known scalar type, and false
\* for every other type
encodeScalar(buf, value) ==
    IF value.type \in IntTypes
    THEN [ok |-> TRUE, buf |-> encodeInt(buf, value.i)]
    ELSE IF value.type \in UintTypes
    THEN [ok |-> TRUE, buf |-> encodeUint(buf, value.i)]
    ELSE IF value.type \in FloatTypes
    THEN [ok |-> TRUE, buf |-> encodeFloat(buf, value.i)]
    ELSE IF value.type = "bool"
    THEN [ok |-> TRUE, buf |-> encodeBool(buf, value.i = 1)]
    ELSE IF value.type \in ComplexTypes
    THEN [ok |-> TRUE, buf |-> encodeComplex(buf, value.i, value.j)]
    ELSE [ok |-> FALSE, buf |-> buf]

\* ----------------------------------------------------------- encoder: Any
\* what the methods of the logged values return: x.Error(), x.String(), and
\* the bytes x.AppendFormat appends
MethodText(m) ==
    CASE m = "Error" -> <<"e", "r", "r">>
      [] m = "String" -> <<"s", "t", "r">>
      [] OTHER -> <<"f", "m", "t">>

\* fmt.Sprintf("%v", value) of the values of unknown type that are logged:
\* they are empty structs
SprintfV(value) == <<"{", "}">>

\* a type switch that tries fmt.Stringer before error (not the program's)
AnyCaseStringerFirst(value) ==
    IF value.type = "nil" THEN "nil"
    ELSE IF "String" \in value.methods THEN "Stringer"
    ELSE IF "Error" \in value.methods THEN "error"
    ELSE IF value.type = "string" THEN "string"
    ELSE IF "AppendFormat" \in value.methods THEN "appendFormatter"
    ELSE "default"

\* the case of Context.Any that takes the value: the nil check, then the
\* cases of the type switch in their order
AnyCase(value) ==
    IF value.type = "nil" THEN "nil"
    ELSE IF "Error" \in value.methods THEN "error"
    ELSE IF "String" \in value.methods THEN "Stringer"
    ELSE IF value.type = "string" THEN "string"
    ELSE IF "AppendFormat" \in value.methods THEN "appendFormatter"
    ELSE "default"

\* Context.Any calls x.Error(), x.String() and x.AppendFormat(buf) directly,
\* with no recover: a panic of the method is a panic of Any
AnyPanics(value) ==
    /\ value.panics
    /\ AnyCase(value) \in {"error", "Stringer", "appendFormatter"}

\* what Context.Any appends after the key
AnyEncode(buf, value) ==
    LET c == AnyCase(value)
        scalar == encodeScalar(buf, value)
    IN  CASE c = "nil" -> encodeNil(buf)
          [] c = "error" -> encodeString(buf, MethodText("Error"))
          [] c = "Stringer" -> encodeString(buf, MethodText("String"))
          [] c = "string" -> encodeString(buf, value.s)
          [] c = "appendFormatter" -> buf \o MethodText("AppendFormat")
          [] OTHER -> IF scalar.ok THEN scalar.buf
                      ELSE encodeString(buf, SprintfV(value))

\* ------------------------------------------------------ encoder: Duration
Second == 1000000000
Millisecond == 1000000
Microsecond == 1000

\* the bytes Context.Duration reserves for formatDuration
DurationReserved == 32

\* The uint64 u of formatDuration is kept as two limbs in base 10^9,
\* u = hi * 10^9 + lo, so that every number stays within 31 bits.
Div10(v) ==
    [hi |-> v.hi \div 10, lo |-> (v.hi % 10) * (Second \div 10) + v.lo \div 10]

Mod10(v) == v.lo % 10

\* a fmtFrac that writes the trailing zeros too (not the program's)
RECURSIVE fmtFracKeepsZeros(_, _, _, _)
fmtFracKeepsZeros(text, v, prec, print) ==
    IF prec = 0
    THEN [text |-> IF print THEN <<".">> \o text ELSE text, v |-> v]
    ELSE fmtFracKeepsZeros(<<Digit(Mod10(v))>> \o text, Div10(v), prec - 1,
                           TRUE)

\* fmtFrac formats the fraction of v / 10^prec in front of text, omitting
\* trailing zeros, and the point too if the fraction is 0; it returns v /
\* 10^prec.  print starts as false.
RECURSIVE fmtFrac(_, _, _, _)
fmtFrac(text, v, prec, print) ==
    IF prec = 0
    THEN [text |-> IF print THEN <<".">> \o text ELSE text, v |-> v]
    ELSE LET digit == Mod10(v)
             p == print \/ digit # 0
         IN  fmtFrac(IF p THEN <<Digit(digit)>> \o text ELSE text, Div10(v),
                     prec - 1, p)

\* the loop of fmtInt
RECURSIVE fmtIntLoop(_, _)
fmtIntLoop(text, v) ==
    IF v = 0 THEN text ELSE fmtIntLoop(<<Digit(v % 10)>> \o text, v \div 10)

\* fmtInt formats v in front of text
fmtInt(text, v) == IF v = 0 THEN <<"0">> \o text ELSE fmtIntLoop(text, v)

\* the two bytes of the micro sign in UTF-8
Micro == <<"\\xC2", "\\xB5">>

\* formatDuration, for a duration of d.i seconds and d.j nanoseconds,
\* negative if d.neg: the text is assembled from its end
formatDuration(d) ==
    LET u == [hi |-> d.i, lo |-> d.j]
        sub ==
            IF u.lo = 0 THEN <<"0", "s">>
            ELSE LET unit == IF u.lo < Microsecond THEN <<"n">>
                             ELSE IF u.lo < Millisecond THEN Micro
                             ELSE <<"m">>
                     prec == IF u.lo < Microsecond THEN 0
                             ELSE IF u.lo < Millisecond THEN 3
                             ELSE 6
                     f == fmtFrac(unit \o <<"s">>, u, prec, FALSE)
                 IN  fmtInt(f.text, f.v.lo)
        whole ==
            LET f == fmtFrac(<<"s">>, u, 9, FALSE)
                s == fmtInt(f.text, f.v.lo % 60)
                um == f.v.lo \div 60
                m == IF um > 0 THEN fmtInt(<<"m">> \o s, um % 60) ELSE s
                uh == um \div 60
            IN  IF um > 0 /\ uh > 0 THEN fmtInt(<<"h">> \o m, uh) ELSE m
        text == IF u.hi = 0 THEN sub ELSE whole
    IN  IF u.hi = 0 /\ u.lo = 0 THEN sub
        ELSE IF d.neg THEN <<"-">> \o text ELSE text

\* Context.Duration: the key, then formatDuration into the reserved bytes
ContextDurationEncode(buf, key, d) == encodeKey(buf, key) \o formatDuration(d)

\* ------------------------------------------------------- encoder: slices
hex ==
    <<"0", "1", "2", "3", "4", "5", "6", "7", "8", "9", "a", "b", "c", "d",
      "e", "f">>

\* an element loop that also writes a comma in front of the first element
\* (not the program's)
RECURSIVE encodeInt32sLoopLeadingComma(_, _, _)
encodeInt32sLoopLeadingComma(buf, s, i) ==
    IF i > Len(s) THEN buf
    ELSE encodeInt32sLoopLeadingComma(encodeInt(Append(buf, ","), s[i]), s,
                                      i + 1)

\* the loop of encodeInt32s and of every other integer slice encoder: a
\* comma in front of every element but the first
RECURSIVE encodeInt32sLoop(_, _, _)
encodeInt32sLoop(buf, s, i) ==
    IF i > Len(s) THEN buf
    ELSE encodeInt32sLoop(
             encodeInt(IF i > 1 THEN Append(buf, ",") ELSE buf, s[i]), s,
             i + 1)

encodeInt32s(buf, s) == Append(encodeInt32sLoop(Append(buf, "["), s, 1), "]")

RECURSIVE encodeStringsLoop(_, _, _)
encodeStringsLoop(buf, s, i) ==
    IF i > Len(s) THEN buf
    ELSE encodeStringsLoop(
             encodeString(IF i > 1 THEN Append(buf, ",") ELSE buf, s[i]), s,
             i + 1)

encodeStrings(buf, s) == Append(encodeStringsLoop(Append(buf, "["), s, 1), "]")

RECURSIVE encodeBytesLoop(_, _, _)
encodeBytesLoop(buf, s, i) ==
    IF i > Len(s) THEN buf
    ELSE encodeBytesLoop(
             (buf \o <<hex[(s[i] \div 16) + 1]>>) \o <<hex[(s[i] % 16) + 1]>>,
             s, i + 1)

\* encodeBytes: "0x", then the two hex digits of every byte
encodeBytes(buf, s) == encodeBytesLoop(buf \o <<"0", "x">>, s, 1)

\* ------------------------------------------- builder calls on one encoder
\* the keys of the fields: an identifier, "$k", the empty key, and a key
\* with a space
EncKeys == {<<"k">>, <<"$", "k">>, <<>>, <<"k", " ", "m">>}

\* a value of a struct type with the methods ms
StructValue(ms, p) ==
    [Value("struct", 0, 0, <<>>) EXCEPT !.methods = ms, !.panics = p]

\* the values handed to Any: nil, scalars of known types, a string, and
\* values of struct types with every combination of the methods Error,
\* String and AppendFormat, which may panic when called
AnyValues ==
    {Value("nil", 0, 0, <<>>), Value("int", -3, 0, <<>>),
     Value("uint8", 7, 0, <<>>), Value("float64", 15, 0, <<>>),
     Value("bool", 1, 0, <<>>), Value("complex128", 10, -20, <<>>),
     Value("string", 0, 0, <<"a", "\"">>)}
    \cup {StructValue(ms, FALSE) :
            ms \in SUBSET {"Error", "String", "AppendFormat"}}
    \cup {StructValue(ms, TRUE) :
            ms \in (SUBSET {"Error", "String", "AppendFormat"}) \ {{}}}

\* the durations: seconds and nanoseconds of the magnitude
Magnitudes ==
    {<<0, 0>>, <<0, 1>>, <<0, 999>>, <<0, 1000>>, <<0, 1500>>,
     <<0, 1000000>>, <<0, 1200000>>, <<0, 999999999>>, <<1, 0>>,
     <<1, 200000000>>, <<60, 0>>, <<61, 500000000>>, <<3600, 0>>,
     <<3661, 1>>, <<259380, 500000000>>}

Durations ==
    {Value("duration", m[1], m[2], <<>>) : m \in Magnitudes}
    \cup {[Value("duration", m[1], m[2], <<>>) EXCEPT !.neg = TRUE] :
            m \in Magnitudes \ {<<0, 0>>}}

\* the parts of the complex numbers, in tenths
Parts == {0, 15, -20}

MaxEncFields == 2

EncoderReady == ~enc.panicked /\ enc.n < MaxEncFields

\* the encoder after a builder call that left buf
Appended(kind, key, value, buf) ==
    [buf |-> buf, n |-> enc.n + 1,
     last |-> [kind |-> kind, key |-> key, start |-> Len(enc.buf),
               value |-> value],
     panicked |-> FALSE]

EncoderOnly ==
    UNCHANGED <<logfile, logger, loggerLevel, ctxPool, async, running, queue,
                waiters,
                quit, wait, flush, acked, cons, th, entryList, nextEntry,
                writeLocker, inWrite, sink, exited, panicked, calls, pushed,
                returned>>

\* ctx.Any(key, value) on a Context that is not nil
ContextAny ==
    /\ EncoderReady
    /\ \E key \in EncKeys, value \in AnyValues :
         enc' = IF AnyPanics(value)
                THEN [Appended("Any", key, value, encodeKey(enc.buf, key))
                        EXCEPT !.panicked = TRUE]
                ELSE Appended("Any", key, value,
                              AnyEncode(encodeKey(enc.buf, key), value))
    /\ EncoderOnly

\* ctx.Duration(key, value)
ContextDuration ==
    /\ EncoderReady
    /\ \E key \in EncKeys, d \in Durations :
         enc' = Appended("Duration", key, d,
                         ContextDurationEncode(enc.buf, key, d))
    /\ EncoderOnly

\* ctx.Complex128(key, value)
ContextComplex128 ==
    /\ EncoderReady
    /\ \E key \in EncKeys, r \in Parts, i \in Parts :
         enc' = Appended("Complex128", key, Value("complex128", r, i, <<>>),
                         encodeComplex(encodeKey(enc.buf, key), r, i))
    /\ EncoderOnly

\* recorder.Int32s(key, value)
RecorderInt32s ==
    /\ EncoderReady
    /\ \E key \in EncKeys, s \in {<<>>, <<1>>, <<1, -2>>, <<1, -2, 30>>} :
         enc' = Appended("Int32s", key, Value("[]int32", 0, 0, s),
                         encodeInt32s(encodeKey(enc.buf, key), s))
    /\ EncoderOnly

\* recorder.Strings(key, value)
RecorderStrings ==
    /\ EncoderReady
    /\ \E key \in EncKeys, s \in {<<>>, <<<<"a">>>>, <<<<"a">>, <<"\"", "b">>>>} :
         enc' = Appended("Strings", key, Value("[]string", 0, 0, s),
                         encodeStrings(encodeKey(enc.buf, key), s))
    /\ EncoderOnly

\* recorder.Bytes(key, value)
RecorderBytes ==
    /\ EncoderReady
    /\ \E key \in EncKeys, s \in {<<>>, <<49, 51, 120>>, <<0>>, <<255, 10>>} :
         enc' = Appended("Bytes", key, Value("[]byte", 0, 0, s),
                         encodeBytes(encodeKey(enc.buf, key), s))
    /\ EncoderOnly

\* ------------------------------------------------ Logger and Context builder
\* the key and value of the fields that are logged
Keys == {<<"k">>}

IntValues == {-3}

\* a gate that also holds back records at the threshold (not the program's)
GatedAtThreshold(threshold, level) == threshold <= level

\* getContext: logger.GetLevel() < level gives the nil Context
Gated(threshold, level) == threshold < level

\* Logger.Print: logger.GetLevel() < level returns at once
PrintGated(threshold, level) == threshold < level

\* an encoder whose reset keeps the bytes (not the program's)
resetKeeps(buf) == buf

\* encoder.reset: buf = buf[:0]
reset(buf) == SubSeq(buf, 1, 0)

\* ctx.reset: level is set and the encoder is reset
ContextReset(ctx, level) ==
    [live |-> TRUE, level |-> level, buf |-> reset(ctx.buf), id |-> ctx.id]

\* ctxPool.Get takes a pooled Context if there is one (the one put last),
\* else makes a new one
PoolGet(pool) == IF pool # <<>> THEN Head(pool) ELSE NilContext

PoolRest(pool) == IF pool # <<>> THEN Tail(pool) ELSE pool

\* the Contexts made so far: a Context is in the pool or in the hands of a
\* goroutine
ContextsMade ==
    Len(ctxPool) + Cardinality({t \in Threads : th[t].ctx.id # 0})

\* ctxPool.Get().(*Context): the pooled Context, or the one that the pool's
\* New makes
GetFromPool(pool) ==
    IF pool # <<>> THEN PoolGet(pool)
    ELSE [NilContext EXCEPT !.id = ContextsMade + 1]

\* an output that keeps the message string, which shares the bytes of the
\* Context's encoder (not the program's)
MessageAliasKept(id) == id

\* output: e.buf.WriteString(msg) copies the bytes of msg, the entry's
\* buffer shares nothing with the Context it came from
MessageAlias(id) == 0

\* putContext: a Context whose encoder is smaller than 1024 bytes is pooled,
\* with the bytes it holds (the capacity of the buffer is taken to be its
\* length)
PoolPut(pool, ctx) ==
    IF Len(ctx.buf) < MaxPooledCap THEN <<ctx>> \o pool ELSE pool

\* an append without the nil check (not the program's)
ContextIntUnguarded(ctx, key, value) ==
    [ctx EXCEPT !.buf = encodeInt(encodeKey(@, key), value)]

\* Context.Int: on a nil Context nothing is touched, and nil is returned
ContextInt(ctx, key, value) ==
    IF ctx.live
    THEN [ctx EXCEPT !.buf = encodeInt(encodeKey(@, key), value)]
    ELSE ctx

\* logger.Trace() ... logger.Fatal(), logger.Log(level): getContext
GetContext(t) ==
    /\ CanCall(t)
    /\ calls.logger < MaxLogs
    /\ calls' = [calls EXCEPT !.logger = @ + 1]
    /\ \E level \in Levels :
         IF Gated(loggerLevel, level)
         THEN /\ th' = [th EXCEPT ![t].pc = "chain", ![t].ctx = NilContext,
                                  ![t].n = 0, ![t].ret = "none", ![t].rec = 0,
                                  ![t].log = [level |-> level, gated |-> TRUE]]
              /\ UNCHANGED ctxPool
         ELSE /\ th' = [th EXCEPT ![t].pc = "chain",
                                  ![t].ctx = ContextReset(
                                                 GetFromPool(ctxPool), level),
                                  ![t].n = 0, ![t].ret = "none", ![t].rec = 0,
                                  ![t].log = [level |-> level, gated |-> FALSE]]
              /\ ctxPool' = PoolRest(ctxPool)
    /\ UNCHANGED <<logfile, enc, logger, loggerLevel,
                   async, running, queue, waiters, quit, wait,
                   flush, acked, cons, entryList, nextEntry, writeLocker,
                   inWrite, sink, exited, panicked, pushed, returned>>

\* ctx.Int(key, value), one link of the builder chain
AppendField(t) ==
    /\ At(t, "chain")
    /\ th[t].n < MaxFields
    /\ \E key \in Keys, value \in IntValues :
         th' = [th EXCEPT ![t].ctx = ContextInt(@, key, value),
                          ![t].n = @ + 1]
    /\ UNCHANGED <<logfile, enc, logger, loggerLevel,
                   ctxPool, async, running, queue, waiters, quit,
                   wait, flush, acked, cons, entryList, nextEntry, writeLocker,
                   inWrite, sink, exited, panicked, calls, pushed, returned>>

\* ctx.Print(msg): a nil Context returns; else finish, writeString(msg) and
\* provider.Print -> output -> formatHeader -> getEntry
ContextPrint(t) ==
    /\ At(t, "chain")
    /\ IF th[t].ctx.live
       THEN /\ th' = [th EXCEPT
                        ![t] = InOutput(
                            [@ EXCEPT !.ctx.buf = writeString(finish(@),
                                                              Message)],
                            [Format(GetEntryFromList(entryList, nextEntry),
                                    calls.output + 1, th[t].ctx.level,
                                    SmallLen,
                                    writeString(finish(th[t].ctx.buf),
                                                Message))
                               EXCEPT !.alias = MessageAlias(th[t].ctx.id)])]
            /\ calls' = [calls EXCEPT !.output = @ + 1]
            /\ entryList' = GetEntryRest(entryList)
            /\ nextEntry' = GetEntryCount(entryList, nextEntry)
       ELSE /\ th' = [th EXCEPT ![t].pc = "idle", ![t].ret = "gated"]
            /\ UNCHANGED <<calls, entryList, nextEntry>>
    /\ UNCHANGED <<logfile, enc, logger, loggerLevel,
                   ctxPool, async, running, queue, waiters, quit,
                   wait, flush, acked, cons, writeLocker, inWrite, sink,
                   exited, panicked, pushed, returned>>

\* Context.Print: provider.Print has returned; putContext(ctx)
PutContext(t) ==
    /\ At(t, "putContext")
    /\ ctxPool' = PoolPut(ctxPool, th[t].ctx)
    /\ th' = [th EXCEPT ![t].pc = "idle", ![t].ctx = NilContext]
    /\ UNCHANGED <<logfile, enc, logger, loggerLevel,
                   async, running, queue, waiters, quit, wait,
                   flush, acked, cons, entryList, nextEntry, writeLocker,
                   inWrite, sink, exited, panicked, calls, pushed, returned>>

\* logger.Print(calldepth, level, msg)
LoggerPrint(t) ==
    /\ CanCall(t)
    /\ calls.logger < MaxLogs
    /\ \E level \in Levels :
         IF PrintGated(loggerLevel, level)
         THEN /\ th' = [th EXCEPT ![t].ret = "gated", ![t].n = 0,
                                  ![t].rec = 0,
                                  ![t].log = [level |-> level, gated |-> TRUE]]
              /\ calls' = [calls EXCEPT !.logger = @ + 1]
              /\ UNCHANGED <<entryList, nextEntry>>
         ELSE /\ th' = [th EXCEPT
                          ![t] = InOutput(
                              [@ EXCEPT !.n = 0,
                                        !.log = [level |-> level,
                                                 gated |-> FALSE]],
                              Format(GetEntryFromList(entryList, nextEntry),
                                     calls.output + 1, level, SmallLen,
                                     Message))]
              /\ calls' = [calls EXCEPT !.logger = @ + 1, !.output = @ + 1]
              /\ entryList' = GetEntryRest(entryList)
              /\ nextEntry' = GetEntryCount(entryList, nextEntry)
    /\ UNCHANGED <<logfile, enc, logger, loggerLevel,
                   ctxPool, async, running, queue, waiters, quit,
                   wait, flush, acked, cons, writeLocker, inWrite, sink,
                   exited, panicked, pushed, returned>>

\* ------------------------------------------------- header and body text
\* the flags of the Logger
Ltimestamp == 1
LUTC == 2
Lmicroseconds == 4
Lshortfile == 8
Llongfile == 16

\* flags & f != 0, for a single bit f
HasFlag(flags, f) == (flags \div f) % 2 = 1

levelBytes == <<"F", "E", "W", "I", "D", "T">>

getLevelByte(level) ==
    IF level - LevelFatal \in 0..(Len(levelBytes) - 1)
    THEN levelBytes[level - LevelFatal + 1] ELSE "X"

\* twoDigits, fourDigits, sixDigits: a number in a zero-padded field
RECURSIVE PaddedDigits(_, _)
PaddedDigits(n, width) ==
    IF width = 0 THEN <<>>
    ELSE Append(PaddedDigits(n \div 10, width - 1), Digit(n % 10))

\* time.Now(): the instant of the example in the flags' documentation
Now ==
    [year |-> 2001, month |-> 2, day |-> 3, hour |-> 1, minute |-> 23,
     second |-> 23, micro |-> 123123]

\* formatHeader: "[L" then the optional timestamp
HeaderStamp(level, flags) ==
    <<"[", getLevelByte(level)>>
      \o (IF HasFlag(flags, Ltimestamp)
          THEN <<" ">> \o PaddedDigits(Now.year, 4)
                 \o <<"/">> \o PaddedDigits(Now.month, 2)
                 \o <<"/">> \o PaddedDigits(Now.day, 2)
                 \o <<" ">> \o PaddedDigits(Now.hour, 2)
                 \o <<":">> \o PaddedDigits(Now.minute, 2)
                 \o <<":">> \o PaddedDigits(Now.second, 2)
                 \o (IF HasFlag(flags, Lmicroseconds)
                     THEN <<".">> \o PaddedDigits(Now.micro, 6) ELSE <<>>)
          ELSE <<>>)

\* formatHeader: " file:line] " when the caller is known, "] " otherwise
formatHeader(level, file, line, flags) ==
    HeaderStamp(level, flags)
      \o (IF line > 0
          THEN <<" ">> \o file \o <<":">> \o DecimalDigits(line) \o <<"]", " ">>
          ELSE <<"]", " ">>)

\* strings.LastIndex(file, "/"), counted from 1; 0 when there is no slash
RECURSIVE LastSlash(_)
LastSlash(file) ==
    IF file = <<>> THEN 0
    ELSE IF file[Len(file)] = "/" THEN Len(file)
    ELSE LastSlash(SubSeq(file, 1, Len(file) - 1))

\* output: the file name that goes into the header
CallerFile(flags, file, line) ==
    IF HasFlag(flags, Lshortfile) \/ HasFlag(flags, Llongfile)
    THEN IF line <= 0 THEN <<"?", "?", "?">>
         ELSE IF HasFlag(flags, Lshortfile)
              THEN SubSeq(file, LastSlash(file) + 1, Len(file))
              ELSE file
    ELSE file

\* output: the line number that goes into the header
CallerLine(flags, line) ==
    IF (HasFlag(flags, Lshortfile) \/ HasFlag(flags, Llongfile)) /\ line <= 0
    THEN 0 ELSE line

\* output: "(prefix) " when there is a prefix
PrefixGroup(prefix) ==
    IF Len(prefix) > 0 THEN <<"(">> \o prefix \o <<")", " ">> ELSE <<>>

\* Prefix(logger, prefix): the prefix of a sub-logger
SubPrefix(parent, child) ==
    IF parent # <<>> THEN parent \o <<"/">> \o child ELSE child

\* an output that ends every record with a newline of its own (not the
\* program's)
WithNewlineAlways(buf) == Append(buf, "\n")

\* an output that leaves the record as the caller ended it (not the
\* program's)
WithNewlineNever(buf) == buf

\* output: a newline is appended unless the buffer ends with one
WithNewline(buf) ==
    IF buf[Len(buf)] # "\n" THEN Append(buf, "\n") ELSE buf

\* stack(4): the goroutine's stack as text
StackText == <<"s", "\n">>

\* output: the block that follows a fatal record
StackBlock ==
    <<"=", "=", "=", "=", "=", "=", "=", "=", "=", " ", "B", "E", "G", "I",
      "N", " ", "S", "T", "A", "C", "K", " ", "T", "R", "A", "C", "E", " ",
      "=", "=", "=", "=", "=", "=", "=", "=", "=", "\n">>
      \o StackText
      \o <<"=", "=", "=", "=", "=", "=", "=", "=", "=", "=", " ", "E", "N",
           "D", " ", "S", "T", "A", "C", "K", " ", "T", "R", "A", "C", "E",
           " ", "=", "=", "=", "=", "=", "=", "=", "=", "=", "=", "\n">>

\* output: the header, the prefix group and the message
OutputBody(level, flags, file, line, prefix, msg) ==
    formatHeader(level, CallerFile(flags, file, line),
                 CallerLine(flags, line), flags)
      \o PrefixGroup(prefix) \o msg

\* output: if e.buf.Len() == 0 { return }
OutputReturnsEarly(buf) == Len(buf) = 0

\* output: everything written to the entry's buffer
OutputText(level, flags, file, line, prefix, msg) ==
    WithNewline(OutputBody(level, flags, file, line, prefix, msg))
      \o (IF level = LevelFatal THEN StackBlock ELSE <<>>)

\* output: e.header = e.buf.Len() right after formatHeader
HeaderLen(e, level, flags, file, line) ==
    e.len + Len(formatHeader(level, CallerFile(flags, file, line),
                             CallerLine(flags, line), flags))

\* the name of the sub-logger
ChildName == <<"c">>

\* the entry when output has filled it
Formatted(e, rec, a) ==
    [Format(e, rec, a.level,
            Len(OutputText(a.level, a.flags, a.file, a.line,
                           IF a.sub THEN SubPrefix(a.parent, ChildName)
                           ELSE a.parent, a.msg)),
            OutputText(a.level, a.flags, a.file, a.line,
                       IF a.sub THEN SubPrefix(a.parent, ChildName)
                       ELSE a.parent, a.msg))
       EXCEPT !.header = HeaderLen(e, a.level, a.flags, a.file, a.line)]

\* what the callers pass: flags, callers, prefixes and messages
FlagSets ==
    {0, Ltimestamp, Ltimestamp + Lmicroseconds, Lshortfile,
     Ltimestamp + LUTC + Llongfile}

PrintArgs ==
    [level : PipelineLevels, flags : FlagSets, file : {<<"d", "/", "f">>},
     line : {0, 7}, parent : {<<>>, <<"p">>}, sub : BOOLEAN,
     msg : {<<>>, <<"m">>, <<"m", "\n">>}]

\* the buffer of entry e when output has written the message of a Print
\* with arguments a into it
BufferWithBody(e, a) ==
    e.text \o OutputBody(a.level, a.flags, a.file, a.line,
                         IF a.sub THEN SubPrefix(a.parent, ChildName)
                         ELSE a.parent, a.msg)

\* Print -> output with the header and body spelled out; with an empty
\* buffer output returns at once and the entry is neither written nor put
\* back
OutputFormatted(t) ==
    /\ CanCall(t)
    /\ calls.output < MaxFormats
    /\ calls' = [calls EXCEPT !.output = @ + 1]
    /\ \E a \in PrintArgs :
          th' = IF OutputReturnsEarly(
                     BufferWithBody(GetEntryFromList(entryList, nextEntry), a))
                THEN [th EXCEPT ![t].args = a, ![t].ret = "empty"]
                ELSE [th EXCEPT
                        ![t] = InOutput([@ EXCEPT !.args = a],
                                        Formatted(GetEntryFromList(entryList,
                                                                   nextEntry),
                                                  calls.output + 1, a))]
    /\ entryList' = GetEntryRest(entryList)
    /\ nextEntry' = GetEntryCount(entryList, nextEntry)
    /\ UNCHANGED <<logfile, enc, logger, loggerLevel, ctxPool,
                   async, running, queue, waiters, quit, wait, flush, acked,
                   cons, writeLocker, inWrite, sink, exited, panicked, pushed,
                   returned>>

\* ----------------------------------------------------------- Logger.Start
LdefaultFlags == 5

MaxLoggerStarts == 2
MaxOptions == 2

\* the options handed to Start: errOption(err) (what WithFile returns when
\* the file cannot be opened), WithWriters(w), WithLevel, WithFlags,
\* WithSync and a nil Option
Options ==
    {[k |-> "err", v |-> e] : e \in 1..2}
    \cup {[k |-> "writer", v |-> w] : w \in 1..2}
    \cup {[k |-> "level", v |-> LevelDebug],
          [k |-> "flags", v |-> Lshortfile],
          [k |-> "sync", v |-> 1], [k |-> "nil", v |-> 0]}

OptionLists == UNION {[1..n -> Options] : n \in 0..MaxOptions}

defaultOptions ==
    [flags |-> LdefaultFlags, sync |-> FALSE, level |-> LevelInfo,
     writers |-> <<>>,
     errors |-> <<>>]

\* what one Option does to the options
applyOption(opt, o) ==
    CASE o.k = "err" -> [opt EXCEPT !.errors = Append(@, o.v)]
      [] o.k = "writer" -> [opt EXCEPT !.writers = Append(@, o.v)]
      [] o.k = "level" -> [opt EXCEPT !.level = o.v]
      [] o.k = "flags" -> [opt EXCEPT !.flags = o.v]
      [] o.k = "sync" -> [opt EXCEPT !.sync = TRUE]
      [] OTHER -> opt

\* options.apply: every Option that is not nil is applied, in order
RECURSIVE apply(_, _)
apply(opt, options) ==
    IF options = <<>> THEN opt
    ELSE apply(applyOption(opt, Head(options)), Tail(options))

\* a failing Start that has stored the flags already (not the program's)
FailedStartSetsFlags(lg, opt) ==
    [lg EXCEPT !.closed = @ \o opt.writers, !.flags = opt.flags,
               !.ret = <<"error", opt.errors[1]>>]

\* Start with an error among the options: Close is called on every writer
\* collected, and the first error is returned
FailedStart(lg, opt) ==
    [lg EXCEPT !.closed = @ \o opt.writers,
               !.ret = <<"error", opt.errors[1]>>]

\* Start without errors: with writers a new printer is made, the flags are
\* stored, and if the printer changed the old one is shut down and the new
\* one installed and started
StartedLogger(lg, opt) ==
    IF opt.writers = <<>>
    THEN [lg EXCEPT !.flags = opt.flags, !.ret = <<"nil", 0>>]
    ELSE [lg EXCEPT !.flags = opt.flags, !.made = @ + 1,
                    !.shut = Append(@, lg.printer), !.printer = lg.made + 1,
                    !.started = Append(@, lg.made + 1),
                    !.ret = <<"nil", 0>>]

\* logger.Start(options...)
LoggerStart ==
    /\ logger.n < MaxLoggerStarts
    /\ \E options \in OptionLists :
         LET opt == apply(defaultOptions, options)
             lg == [logger EXCEPT !.n = @ + 1, !.opts = options]
         IN  IF Len(opt.errors) > 0
             THEN /\ logger' = FailedStart(lg, opt)
                  /\ UNCHANGED loggerLevel
             ELSE /\ logger' = StartedLogger(lg, opt)
                  /\ loggerLevel' = IF opt.level # 0 THEN opt.level
                                    ELSE loggerLevel
    /\ UNCHANGED <<logfile, enc, ctxPool, async, running, queue, waiters,
                   quit, wait, flush, acked, cons, th, entryList, nextEntry,
                   writeLocker, inWrite, sink, exited, panicked, calls,
                   pushed, returned>>

\* ------------------------------------- Logger.Start replacing the printer
\* The provider pipeline above is printer 1, made by the Logger's first
\* Start with a writer (sync-only when WithSync was given); printer 0 is
\* the empty printer of NewLogger, and printer 2, made by the second Start,
\* is a printer of its own whose pipeline is not followed.
PipelinePrinter == 1

\* Start(WithWriters(w)): the options are applied, newPrinter makes the new
\* printer, the flags are stored; logger.Shutdown() comes next.  Start
\* assigns logger.printer without synchronization, so the calls of Start
\* are made one after the other.
LoggerStartBegin(t) ==
    /\ CanCall(t)
    /\ logger.n < MaxLoggerStarts
    /\ \A u \in Threads : ~th[u].starting
    /\ logger' = [logger EXCEPT !.n = @ + 1, !.made = @ + 1,
                                !.flags = defaultOptions.flags,
                                !.ret = "none"]
    /\ th' = [th EXCEPT ![t].pc = "loggerShutdown", ![t].starting = TRUE,
                        ![t].snap = returned, ![t].ret = "none"]
    /\ UNCHANGED <<logfile, enc, loggerLevel, ctxPool, async, running, queue,
                   waiters, quit, wait, flush, acked, cons, entryList,
                   nextEntry, writeLocker, inWrite, sink, exited, panicked,
                   calls, pushed, returned>>

\* logger.Shutdown(): logger.printer.Shutdown(), which does nothing for the
\* empty printer
LoggerShutdownOld(t) ==
    /\ At(t, "loggerShutdown")
    /\ IF logger.printer = PipelinePrinter
         THEN ShutdownBody(t)
         ELSE /\ th' = [th EXCEPT ![t].pc = "install", ![t].ret = "noop"]
              /\ UNCHANGED running
    /\ UNCHANGED <<logfile, enc, logger, loggerLevel, ctxPool,
                   async, queue, waiters, quit, wait, flush, acked, cons,
                   entryList, nextEntry, writeLocker, inWrite, sink, exited,
                   panicked, calls, pushed, returned>>

\* logger.printer = opt.printer
LoggerInstall(t) ==
    /\ At(t, "install")
    /\ logger' = [logger EXCEPT !.shut = Append(@, logger.printer),
                                !.printer = logger.made]
    /\ th' = [th EXCEPT ![t].pc = "startNew"]
    /\ UNCHANGED <<logfile, enc, loggerLevel, ctxPool, async, running, queue,
                   waiters, quit, wait, flush, acked, cons, entryList,
                   nextEntry, writeLocker, inWrite, sink, exited, panicked,
                   calls, pushed, returned>>

\* logger.printer.Start(); return nil
LoggerStartNew(t) ==
    /\ At(t, "startNew")
    /\ logger' = [logger EXCEPT !.started = Append(@, logger.printer),
                                !.ret = <<"nil", 0>>]
    /\ th' = [th EXCEPT ![t].pc = "idle", ![t].starting = FALSE,
                        ![t].ret = "nil"]
    /\ IF logger.printer = PipelinePrinter /\ StartSpawns(async, running)
         THEN /\ running' = 1
              /\ cons' = Append(cons, NewConsumer)
         ELSE UNCHANGED <<running, cons>>
    /\ UNCHANGED <<logfile, enc, loggerLevel, ctxPool, async, queue, waiters,
                   quit, wait, flush, acked, entryList, nextEntry,
                   writeLocker, inWrite, sink, exited, panicked, calls,
                   pushed, returned>>

\* ------------------------------------------------------------ file writer
\* options.MaxSize, and the bytes of the banner that rotate writes at the
\* head of every file, in units of the model
FileMaxSize == 4
FileHeaderLen == 1

MaxFileWrites == 5
MaxFileTicks == 2

\* rotate: clear sets written to 0 and closes the file, a new file is
\* created, and the banner is written to it and counted
fileRotate(f) ==
    [f EXCEPT !.written = FileHeaderLen, !.size = FileHeaderLen,
              !.files = @ + 1]

\* the body of the flush goroutine's tick: Flush, Sync, and written = 0
fileFlush(f) == IF f.written > 0 THEN [f EXCEPT !.written = 0] ELSE f

\* file.Write of n bytes: rotate first on a new day; count the bytes; rotate
\* if written has reached MaxSize
fileWrite(f, n, newDay) ==
    LET g == IF newDay THEN fileRotate(f) ELSE f
        h == [g EXCEPT !.written = @ + n, !.size = @ + n, !.writes = @ + 1]
    IN  IF h.written >= FileMaxSize THEN fileRotate(h) ELSE h

FileOnly ==
    UNCHANGED <<enc, logger, loggerLevel, ctxPool, async, running, queue,
                waiters, quit, wait, flush, acked, cons, th, entryList,
                nextEntry, writeLocker, inWrite, sink, exited, panicked,
                calls, pushed, returned>>

\* newFile: the first rotate, and the flush goroutine is started
NewFile ==
    /\ logfile.files = 0
    /\ logfile' = fileRotate(logfile)
    /\ FileOnly

\* w.Write(level, data, headerLen), under w.mu
FileWrite ==
    /\ logfile.files > 0
    /\ ~logfile.closed
    /\ logfile.writes < MaxFileWrites
    /\ \E n \in 1..2, newDay \in BOOLEAN : logfile' = fileWrite(logfile, n, newDay)
    /\ FileOnly

\* the flush goroutine: case <-ticker.C, under w.mu
FileTick ==
    /\ logfile.files > 0
    /\ ~logfile.closed
    /\ logfile.ticks < MaxFileTicks
    /\ logfile' = [fileFlush(logfile) EXCEPT !.ticks = @ + 1]
    /\ FileOnly

\* w.Close(): the flush goroutine is told to quit; clear
FileClose ==
    /\ logfile.files > 0
    /\ ~logfile.closed
    /\ logfile' = [logfile EXCEPT !.written = 0, !.closed = TRUE]
    /\ FileOnly

\* ---------------------------------------------------------- specifications
Consumers == 1..(MaxStarts)

\* a step of a goroutine inside Shutdown or inside output
PlainCallStep(t) ==
    \/ ShutdownCloseQuit(t)
    \/ ShutdownSignal(t)
    \/ ShutdownRecvWait(t)
    \/ ShutdownClose(t)
    \/ OutputLoad(t)
    \/ OutputPush(t)
    \/ OutputSyncWrite(t)
    \/ OutputSyncRet(t)

\* a step of a goroutine inside a call of the provider
CallStep(t) ==
    \/ PlainCallStep(t)
    \/ FatalShutdown(t)
    \/ Exit(t)

\* a step of a consumer goroutine of the provider, whose flush channel has
\* no sender
ConsumerStep(c) ==
    \/ RunTop(c)
    \/ RunWoken(c)
    \/ WriteEntry(c)
    \/ WriteEntryRet(c)
    \/ SelectQuit(c)
    \/ SelectDefault(c)
    \/ FlushAll(c)
    \/ CloseWait(c)

\* the provider: Start, Shutdown and Print called by any goroutines
Next ==
    \/ \E t \in Threads : Start(t)
    \/ \E t \in Threads : Shutdown(t)
    \/ \E t \in Threads : OutputGetEntry(t, PipelineLevels, PipelineLens)
    \/ \E t \in Threads : CallStep(t)
    \/ \E c \in Consumers : ConsumerStep(c)

Spec == Init /\ [][Next]_vars

\* the printer: the same pipeline with Flush, logging non-fatal records
PrinterLevels == {LevelInfo}

PrinterCallStep(t) ==
    \/ PlainCallStep(t)
    \/ FlushSend(t)
    \/ FlushSignal(t)
    \/ FlushRecv(t)

NextPrinter ==
    \/ \E t \in Threads : Start(t)
    \/ \E t \in Threads : Shutdown(t)
    \/ \E t \in Threads : OutputGetEntry(t, PrinterLevels, PipelineLens)
    \/ \E t \in Threads : Flush(t)
    \/ \E t \in Threads : PrinterCallStep(t)
    \/ \E c \in Consumers : ConsumerStep(c)
    \/ \E c \in Consumers : SelectFlush(c)
    \/ \E c \in Consumers : CloseResp(c)

SpecPrinter == Init /\ [][NextPrinter]_vars

\* one life cycle of the provider under fair scheduling: Start is called
\* once, records are not fatal, every goroutine that can take a step
\* eventually takes it, and every call of the sink returns
LiveNext ==
    \/ \E t \in Threads : calls.start = 0 /\ Start(t)
    \/ \E t \in Threads : Shutdown(t)
    \/ \E t \in Threads : OutputGetEntry(t, PrinterLevels, PipelineLens)
    \/ \E t \in Threads : PlainCallStep(t)
    \/ \E c \in Consumers : ConsumerStep(c)

Fairness ==
    /\ \A t \in Threads : WF_vars(PlainCallStep(t))
    /\ \A c \in Consumers : WF_vars(ConsumerStep(c))

SpecLive == Init /\ [][LiveNext]_vars /\ Fairness

\* the same life cycle in front of a sink that may block: only the calling
\* goroutines are scheduled fairly, a consumer may stay inside Writer.Write
\* (or anywhere else) for ever
CallerFairness == \A t \in Threads : WF_vars(PlainCallStep(t))

SpecBlocked == Init /\ [][LiveNext]_vars /\ CallerFairness

\* the Logger in front of a provider that is started before the first
\* record or never, and shut down only by a fatal record: records are
\* created through the Context builder and through Logger.Print, at any
\* threshold
InitLogger == InitProvider /\ loggerLevel \in Levels

NextLogger ==
    \/ \E t \in Threads : calls.start = 0 /\ calls.logger = 0 /\ Start(t)
    \/ \E t \in Threads : GetContext(t)
    \/ \E t \in Threads : AppendField(t)
    \/ \E t \in Threads : ContextPrint(t)
    \/ \E t \in Threads : PutContext(t)
    \/ \E t \in Threads : LoggerPrint(t)
    \/ \E t \in Threads : CallStep(t)
    \/ \E c \in Consumers : ConsumerStep(c)

SpecLogger == InitLogger /\ [][NextLogger]_vars

\* one life cycle of the provider in front of a sink whose Write may fail:
\* Start is called once, records are not fatal and are short or long
SinkCallStep(t) ==
    \/ ShutdownCloseQuit(t)
    \/ ShutdownSignal(t)
    \/ ShutdownRecvWait(t)
    \/ ShutdownClose(t)
    \/ OutputLoad(t)
    \/ OutputPush(t)
    \/ OutputSyncWrite(t)
    \/ OutputSyncRetWith(t, WriteResults)

SinkConsumerStep(c) ==
    \/ RunTop(c)
    \/ RunWoken(c)
    \/ WriteEntry(c)
    \/ WriteEntryRetWith(c, WriteResults)
    \/ SelectQuit(c)
    \/ SelectDefault(c)
    \/ FlushAll(c)
    \/ CloseWait(c)

NextSink ==
    \/ \E t \in Threads : calls.start = 0 /\ Start(t)
    \/ \E t \in Threads : Shutdown(t)
    \/ \E t \in Threads : OutputGetEntry(t, PrinterLevels, BufLens)
    \/ \E t \in Threads : SinkCallStep(t)
    \/ \E c \in Consumers : SinkConsumerStep(c)

SpecSink == Init /\ [][NextSink]_vars

\* a Logger that is started twice with a writer, its goroutines printing
\* non-fatal records and calling Logger.Shutdown while printer 1 is the
\* installed one
ReplaceStep(t) ==
    \/ LoggerStartBegin(t)
    \/ LoggerShutdownOld(t)
    \/ LoggerInstall(t)
    \/ LoggerStartNew(t)

NextReplace ==
    \/ \E t \in Threads : ReplaceStep(t)
    \/ \E t \in Threads : logger.printer = PipelinePrinter /\ Shutdown(t)
    \/ \E t \in Threads :
          /\ logger.printer = PipelinePrinter
          /\ OutputGetEntry(t, PrinterLevels, PipelineLens)
    \/ \E t \in Threads : PlainCallStep(t)
    \/ \E c \in Consumers : ConsumerStep(c)

SpecReplace == Init /\ [][NextReplace]_vars

\* one life cycle of the printer under fair scheduling, with Flush: Start is
\* called once, every goroutine that can take a step eventually takes it,
\* and every call of the sink returns
FlushConsumerStep(c) ==
    \/ ConsumerStep(c)
    \/ SelectFlush(c)
    \/ CloseResp(c)

NextFlush ==
    \/ \E t \in Threads : calls.start = 0 /\ Start(t)
    \/ \E t \in Threads : Shutdown(t)
    \/ \E t \in Threads : OutputGetEntry(t, PrinterLevels, PipelineLens)
    \/ \E t \in Threads : Flush(t)
    \/ \E t \in Threads : PrinterCallStep(t)
    \/ \E c \in Consumers : FlushConsumerStep(c)

FlushFairness ==
    /\ \A t \in Threads : WF_vars(PrinterCallStep(t))
    /\ \A c \in Consumers : WF_vars(FlushConsumerStep(c))

SpecFlush == Init /\ [][NextFlush]_vars /\ FlushFairness

\* one life cycle of the provider with enough records for the free list to
\* hold two entries when getEntry is called: Start is called once, records
\* are not fatal and are short or long
MaxPoolOutputs == 3

NextPool ==
    \/ \E t \in Threads : calls.start = 0 /\ Start(t)
    \/ \E t \in Threads : Shutdown(t)
    \/ \E t \in Threads :
          OutputGetEntryUpTo(t, PrinterLevels, BufLens, MaxPoolOutputs)
    \/ \E t \in Threads : PlainCallStep(t)
    \/ \E c \in Consumers : ConsumerStep(c)

SpecPool == Init /\ [][NextPool]_vars

\* the provider, started before the first record or never, with the text
\* of every record spelled out
NextFormat ==
    \/ \E t \in Threads : calls.start = 0 /\ calls.output = 0 /\ Start(t)
    \/ \E t \in Threads : OutputFormatted(t)
    \/ \E t \in Threads : CallStep(t)
    \/ \E c \in Consumers : ConsumerStep(c)

SpecFormat == Init /\ [][NextFormat]_vars

\* one encoder, to which builder methods append up to MaxEncFields fields
NextEncoder ==
    \/ ContextAny
    \/ ContextDuration
    \/ ContextComplex128
    \/ RecorderInt32s
    \/ RecorderStrings
    \/ RecorderBytes

SpecEncoder == Init /\ [][NextEncoder]_vars

\* a Logger that is started up to MaxLoggerStarts times
NextStart == LoggerStart

SpecStart == Init /\ [][NextStart]_vars

\* one file writer with its flush goroutine
NextFile ==
    \/ NewFile
    \/ FileWrite
    \/ FileTick
    \/ FileClose

SpecFile == Init /\ [][NextFile]_vars

\* ------------------------------------------------------------ observations
\* the record ids handed to Writer.Write by consumer goroutines, in order
IsConsumerWrite(ev) == ev.k = "Write" /\ ev.by > NumThreads

ConsumerWrites == SelectSeq(sink, IsConsumerWrite)

\* the position of a record in the order of pushes
PushIndex(r) == CHOOSE i \in 1..Len(pushed) : pushed[i] = r

WrittenRecs == {sink[i].rec : i \in {j \in 1..Len(sink) : sink[j].k = "Write"}}

PushedRecs == {pushed[i] : i \in 1..Len(pushed)}

\* C1: records that went through the queue are handed to Writer.Write in the
\* order of their pushes: no two of them are written in the opposite order.
C1_FifoOrder ==
    \A i, j \in 1..Len(ConsumerWrites) :
        i < j => PushIndex(ConsumerWrites[i].rec)
                     < PushIndex(ConsumerWrites[j].rec)

\* positions of the sink's history
IsWriteOf(i, r) == sink[i].k = "Write" /\ sink[i].rec = r

IsCloseBy(i, t) == sink[i].k = "Close" /\ sink[i].by = ThreadActor(t)

\* C2: when a Shutdown that found the provider running has returned, it has
\* invoked Writer.Close, and every record whose Print had returned before
\* that Shutdown was called was handed to Writer.Write before that Close.
C2_DrainBeforeClose ==
    \A t \in Threads :
        th[t].ret = "closed" =>
            \E i \in 1..Len(sink) :
                /\ IsCloseBy(i, t)
                /\ \A r \in th[t].snap : \E j \in 1..(i - 1) : IsWriteOf(j, r)

\* every consumer goroutine that was spawned has returned from run
ConsumersExited == cons # <<>> /\ \A c \in 1..Len(cons) : cons[c].pc = "done"

NoCallInProgress == \A t \in Threads : th[t].pc = "idle"

\* C3: no record is dropped on shutdown: once the consumer has exited and
\* every call has returned, each record whose Print returned has been handed
\* to Writer.Write, and none is left in the queue.
C3_NothingLeftBehind ==
    (Alive /\ ConsumersExited /\ NoCallInProgress) =>
        (returned \subseteq WrittenRecs /\ queue = <<>>)

\* C5: when Flush has returned, every record pushed before Flush was called
\* has been handed to Writer.Write.
C5_FlushWritesPushed ==
    \A t \in Threads : th[t].ret = "flushed" => th[t].snap \subseteq WrittenRecs

\* C4: a Shutdown that won the transition from running to stopped
\* eventually returns (having closed the sink), wherever the consumer was.
C4_ShutdownReturns ==
    \A t \in Threads : (th[t].pc = "closeQuit") ~> (th[t].ret = "closed")

\* the goroutine that called os.Exit has this record as its fatal record
Exited(t) == th[t].pc = "exited"

\* C8: when a fatal Print has ended the process, its record, with the
\* stack-trace block, was handed to Writer.Write, and Writer.Close was
\* invoked after that, whatever the provider (running, not running, sync).
C8_FatalWriteCloseExit ==
    \A t \in Threads :
        Exited(t) =>
            \E i, j \in 1..Len(sink) :
                /\ i < j
                /\ IsWriteOf(i, th[t].rec)
                /\ sink[i].trace
                /\ sink[j].k = "Close"

\* the records pushed before record r was (none if r was written directly)
PushedBefore(r) ==
    IF r \in PushedRecs THEN {pushed[i] : i \in 1..(PushIndex(r) - 1)} ELSE {}

\* C9: when a fatal Print has ended the process, its record and every record
\* pushed before it have been handed to Writer.Write.
C9_FatalFlushesFirst ==
    \A t \in Threads :
        Exited(t) => ({th[t].rec} \cup PushedBefore(th[t].rec)) \subseteq WrittenRecs

\* no Shutdown has taken the provider from running to stopped so far
NoShutdownYet == ~quit /\ \A t \in Threads : th[t].pc # "closeQuit"

\* C10: as long as no Shutdown has stopped the provider, however many times
\* Start was called, exactly one call has spawned a consumer loop (on a
\* provider with a queue): there are never two consumer loops.
C10_OneConsumer ==
    NoShutdownYet =>
        /\ Len(cons) <= 1
        /\ (async /\ calls.start > 0) => (Len(cons) = 1 /\ running = 1)
        /\ ~async => Len(cons) = 0

\* Start was called twice and the second call found the provider running
C10_StartedTwice ==
    /\ NoShutdownYet
    /\ async
    /\ calls.start = 2
    /\ Len(cons) = 1
    /\ \E t \in Threads : th[t].ret = "errRunning"

\* nothing is going on: no call is in progress, the queue is empty and every
\* consumer waits for a push
Quiescent ==
    /\ Alive
    /\ NoCallInProgress
    /\ queue = <<>>
    /\ \A c \in 1..Len(cons) : cons[c].pc = "waiting"

\* C6: a record of level R created through the Logger at threshold L is
\* gated iff R > L.  A gated call has a nil builder, takes no entry and
\* nothing of it is handed to Writer.Write.  A record that is not gated is
\* handed to the provider: when its Print has returned it was written
\* (directly, or by the consumer once the queue is drained) or is queued.
C6_LevelGate ==
    /\ \A t \in Threads :
         th[t].log.level # 0 =>
            /\ th[t].log.gated <=> (th[t].log.level > loggerLevel)
            /\ th[t].log.gated =>
                  (~th[t].ctx.live /\ th[t].rec = 0 /\ th[t].e = NoEntry)
            /\ (~th[t].log.gated /\ th[t].ret = "printed") =>
                  /\ th[t].rec \in WrittenRecs \cup PushedRecs
                  /\ (~async \/ Quiescent) => th[t].rec \in WrittenRecs
    /\ \A i \in 1..Len(sink) :
         sink[i].k = "Write" => sink[i].level <= loggerLevel
    /\ \A i \in 1..Len(queue) : queue[i].level <= loggerLevel

\* one call was gated and another one's record was written
C6_GatedAndWritten ==
    \E t, u \in Threads :
        /\ th[t].ret = "gated"
        /\ th[t].log.gated
        /\ th[u].ret = "printed"
        /\ th[u].rec \in WrittenRecs

\* C7: a step of the builder chain on a nil Context (an append or the final
\* Print) leaves the Context nil and its buffer untouched, reaches neither
\* the provider nor the pools, the queue or the sink, and does not panic.
C7_NilChainNoEffect ==
    [][\A t \in Threads :
          (th[t].pc = "chain" /\ ~th[t].ctx.live /\ th'[t] # th[t]) =>
              /\ th'[t].ctx = th[t].ctx
              /\ th'[t].e = NoEntry
              /\ th'[t].pc \in {"chain", "idle"}
              /\ UNCHANGED <<ctxPool, entryList, nextEntry, queue, sink,
                             pushed, panicked>>
              /\ calls'.output = calls.output]_vars

\* a chain of appends on a nil Context has ended in Print
C7_NilChainPrinted ==
    \E t \in Threads :
        th[t].pc = "idle" /\ th[t].ret = "gated" /\ th[t].n > 1

\* a Shutdown has gone all the way: Writer.Close was invoked
ShutdownCompleted == \E i \in 1..Len(sink) : sink[i].k = "Close"

\* C11: stopped is terminal: once a Shutdown has completed, no later step
\* (a Start in particular) sets running to 1 again or spawns a consumer loop.
C11_StoppedIsTerminal ==
    [][(ShutdownCompleted /\ running = 0) =>
          (running' = 0 /\ Len(cons') = Len(cons))]_vars

\* the number of times Writer.Close was invoked
CloseCount == Cardinality({i \in 1..Len(sink) : sink[i].k = "Close"})

\* goroutine t calls Shutdown in this step
ShutdownCalled(t) == calls'.shutdown = calls.shutdown + 1 /\ th'[t] # th[t]

\* C12: Shutdown is idempotent and safe before Start: a Shutdown called after
\* a completed one, on a provider that was never started or on a sync-only
\* provider returns at once as a no-op (quit is not closed, nothing blocks,
\* Writer.Close is not invoked), and Writer.Close is invoked at most once.
C12_ShutdownIdempotent ==
    [][\A t \in Threads :
          /\ (ShutdownCalled(t)
                /\ (ShutdownCompleted \/ ~async \/ calls.start = 0)) =>
                 /\ th'[t].pc = "idle"
                 /\ th'[t].ret = "noop"
                 /\ UNCHANGED <<running, quit, wait, sink, cons, waiters,
                                panicked>>
          /\ CloseCount <= 1]_vars

\* goroutine t calls Start in this step
StartCalled(t) == calls'.start = calls.start + 1 /\ th'[t] # th[t]

\* the values a caller receives that are a non-nil error
IsError(ret) == ret \in {"errNilQueue", "errRunning"}

\* C13 as stated: neither a Start on a provider that is already running nor
\* a Shutdown on one that is already stopped reports an error to its caller.
C13_NoErrorReported ==
    [][\A t \in Threads :
          /\ (StartCalled(t) /\ async /\ running = 1) => ~IsError(th'[t].ret)
          /\ (ShutdownCalled(t) /\ async /\ running = 0) =>
                 ~IsError(th'[t].ret)]_vars

\* C13 as amended: a Start on a provider that is already running spawns
\* nothing, leaves running at 1 and returns the error "provider already
\* running"; a Shutdown on a provider that is already stopped returns nil
\* at once.
C13_DoubleStartIsAnError ==
    [][\A t \in Threads :
          /\ (StartCalled(t) /\ async /\ running = 1) =>
                 /\ th'[t].ret = "errRunning"
                 /\ th'[t].pc = "idle"
                 /\ UNCHANGED <<running, cons>>
          /\ (ShutdownCalled(t) /\ async /\ running = 0) =>
                 /\ ~IsError(th'[t].ret)
                 /\ th'[t].pc = "idle"]_vars

\* a Start found the provider running, and a Shutdown found it stopped
C13_BothDoubled ==
    /\ async
    /\ \E t \in Threads : th[t].ret = "errRunning"
    /\ \E t \in Threads : th[t].ret = "noop"
    /\ ShutdownCompleted

\* C14: sink exclusivity: at no time are two goroutines (the consumer loop
\* and a producer on the synchronous path, or any other two) inside
\* Writer.Write on the provider's sink.
C14_SinkExclusive == Cardinality(inWrite) <= 1

\* goroutine t returns from a synchronous write whose Write gave an error
SyncWriteFailed(t) ==
    /\ th[t].pc = "syncRet"
    /\ th'[t].pc # "syncRet"
    /\ th'[t].werr = "error"

EntriesInUse ==
    {th[t].e : t \in {u \in Threads : th[u].e # NoEntry}}
      \cup {queue[i] : i \in 1..Len(queue)}
      \cup UNION {{cons[c].batch[i] : i \in 1..Len(cons[c].batch)} :
                     c \in 1..Len(cons)}

\* C16: pool correctness: in every state the entry getEntry would return
\* is empty (length zero, no bytes, no record), whether it is recycled or
\* new, and is off the free list; so every entry in use holds the bytes of
\* its own record only and is not on the free list.
C16_PoolCorrectness ==
    /\ LET e == GetEntryFromList(entryList, nextEntry)
       IN /\ e.len = 0
          /\ e.text = <<>>
          /\ e.rec = 0
          /\ ~e.trace
          /\ \A i \in 1..Len(GetEntryRest(entryList)) :
                GetEntryRest(entryList)[i].id # e.id
    /\ \A e \in EntriesInUse :
          /\ e.len \in BufLens
          /\ e.text = Message
          /\ \A i \in 1..Len(entryList) : entryList[i].id # e.id

\* a goroutine holds a recycled entry: the entry was used for the first
\* record, put back with its bytes, and taken again for the second
C16_EntryReused ==
    \E t \in Threads :
        /\ th[t].e.id = 1
        /\ th[t].e.rec = 2
        /\ 1 \in WrittenRecs

\* C17: in async running mode a producer never waits for the sink: a Print
\* that found the provider running and is about to push returns, even if the
\* consumer stays inside Writer.Write for ever.
C17_PushReturns ==
    \A t \in Threads :
        (th[t].pc = "push") ~> (th[t].pc = "idle" /\ th[t].ret = "printed")

\* a Print has pushed its record and returned while the consumer is
\* inside Writer.Write with an earlier batch
C17_ReturnedDuringWrite ==
    \E t \in Threads, c \in 1..Len(cons) :
        /\ cons[c].pc = "inWrite"
        /\ th[t].pc = "idle"
        /\ th[t].ret = "printed"
        /\ \E i \in 1..Len(queue) : queue[i].rec = th[t].rec

\* the goroutines that are inside Writer.Write on the synchronous path
SyncWriters == {t \in Threads : ThreadActor(t) \in inWrite}

\* C18: synchronous fallback: a record whose Print did not take the queue
\* path (sync-only provider, or running was 0 at the check) has been handed
\* to Writer.Write by its own goroutine when Print returns; it never enters
\* the queue; and at most one goroutine is inside a synchronous Write, the
\* one that holds the write mutex.
C18_SyncFallback ==
    /\ \A t \in Threads :
          (th[t].ret = "printed" /\ th[t].rec \notin PushedRecs) =>
              \E i \in 1..Len(sink) :
                  IsWriteOf(i, th[t].rec) /\ sink[i].by = ThreadActor(t)
    /\ \A t \in Threads :
          th[t].pc \in {"syncWrite", "syncRet"} =>
              /\ th[t].rec \notin PushedRecs
              /\ \A i \in 1..Len(queue) : queue[i].rec # th[t].rec
    /\ ~async => (pushed = <<>> /\ queue = <<>>)
    /\ Cardinality(SyncWriters) <= 1
    /\ \A t \in SyncWriters : writeLocker = t

\* one goroutine is inside the synchronous Write and another one, whose
\* Print also took the synchronous path, waits for the write mutex
C18_SecondWriterWaits ==
    \E t, u \in Threads :
        /\ th[t].pc = "syncRet"
        /\ th[u].pc = "syncWrite"
        /\ writeLocker = t

\* the prefix a record carries: the logger's own, or parent/child for a
\* sub-logger of a logger that has a prefix
PrefixOf(a) ==
    IF ~a.sub THEN a.parent
    ELSE IF a.parent = <<>> THEN ChildName
    ELSE a.parent \o <<"/">> \o ChildName

\* the "(prefix) " group of a record, empty without a prefix
GroupOf(a) ==
    IF PrefixOf(a) = <<>> THEN <<>>
    ELSE <<"(">> \o PrefixOf(a) \o <<")", " ">>

\* data[:headerLen] is a header "[...] " and lies inside data
HeaderFramed(data, headerLen) ==
    /\ 0 < headerLen
    /\ headerLen <= Len(data)
    /\ data[1] = "["
    /\ SubSeq(data, headerLen - 1, headerLen) = <<"]", " ">>

\* the records in a buffer or at the sink, each with the arguments of the
\* Print that made it
FormattedRecords ==
    {<<th[t].e.text, th[t].e.header, th[t].args>> :
        t \in {u \in Threads : th[u].e # NoEntry /\ th[u].args # NoArgs}}
      \cup UNION {{<<sink[i].text, sink[i].header, th[t].args>> :
                      i \in {j \in 1..Len(sink) : IsWriteOf(j, th[t].rec)}} :
                     t \in {u \in Threads : th[u].args # NoArgs}}

\* C19 as stated: for every record, headerLen is the length of the header
\* with 0 < headerLen <= len(data), and data[headerLen:] is exactly the
\* optional "(prefix) " group (parent/child for a sub-logger), the message
\* and a terminating newline.
C19_BodyIsMessageAndNewline ==
    \A r \in FormattedRecords :
        /\ HeaderFramed(r[1], r[2])
        /\ SubSeq(r[1], r[2] + 1, Len(r[1]))
             = GroupOf(r[3]) \o r[3].msg \o <<"\n">>

\* what follows the message: a newline unless the message ends with one,
\* then the stack-trace block if the record is fatal
TailOf(a) ==
    (IF a.msg # <<>> /\ a.msg[Len(a.msg)] = "\n" THEN <<>> ELSE <<"\n">>)
      \o (IF a.level = LevelFatal THEN StackBlock ELSE <<>>)

\* C19 as amended: for every record, headerLen is the length of the header
\* with 0 < headerLen <= len(data), and data[headerLen:] is exactly the
\* optional "(prefix) " group (parent/child for a sub-logger), the message,
\* a newline unless the message already ends with one, and, for a fatal
\* record, the stack-trace block.
C19_BodyFraming ==
    \A r \in FormattedRecords :
        /\ HeaderFramed(r[1], r[2])
        /\ SubSeq(r[1], r[2] + 1, Len(r[1]))
             = GroupOf(r[3]) \o r[3].msg \o TailOf(r[3])

\* the sink has received a fatal record of a sub-logger whose message ends
\* with a newline, with a timestamp in its header
C19_FatalSubLoggerWritten ==
    \E i \in 1..Len(sink), t \in Threads :
        /\ sink[i].k = "Write"
        /\ sink[i].rec = th[t].rec
        /\ th[t].args.sub
        /\ th[t].args.parent = <<"p">>
        /\ th[t].args.level = LevelFatal
        /\ th[t].args.msg = <<"m", "\n">>
        /\ HasFlag(th[t].args.flags, Ltimestamp)

\* how often a character occurs in a text
Count(ch, text) == Cardinality({i \in 1..Len(text) : text[i] = ch})

\* k fields as they are logged, separated by commas
RECURSIVE FieldsText(_)
FieldsText(k) ==
    IF k = 0 THEN <<>>
    ELSE (IF k = 1 THEN <<>> ELSE FieldsText(k - 1) \o <<",">>)
           \o <<"k", ":", "-", "3">>

\* C20: encoder framing: while a builder is filled its buffer is empty
\* after zero appends (also when the builder comes from the pool with the
\* bytes of an earlier record) and is '{' and the fields after k >= 1
\* appends; after Print(msg) the text is msg alone for zero fields, and
\* '{' fields '}' ' ' msg with one opening brace, k - 1 commas and one
\* closing brace for k >= 1 fields.
C20_EncoderFraming ==
    \A t \in Threads :
        th[t].ctx.live =>
            /\ th[t].pc = "chain" =>
                  th[t].ctx.buf
                    = (IF th[t].n = 0 THEN <<>> ELSE <<"{">>)
                        \o FieldsText(th[t].n)
            /\ th[t].e # NoEntry =>
                  /\ th[t].e.text = th[t].ctx.buf
                  /\ th[t].e.text
                       = (IF th[t].n = 0 THEN <<>>
                          ELSE <<"{">> \o FieldsText(th[t].n) \o <<"}", " ">>)
                           \o Message
                  /\ Count("{", th[t].e.text) = IF th[t].n = 0 THEN 0 ELSE 1
                  /\ Count("}", th[t].e.text) = IF th[t].n = 0 THEN 0 ELSE 1
                  /\ Count(",", th[t].e.text)
                       = IF th[t].n = 0 THEN 0 ELSE th[t].n - 1

\* the first record, with fields, was written and its builder put into the
\* pool with its bytes; the second record, with one field, is made with
\* that builder, taken from the pool
C20_PooledBuilderReused ==
    \E t \in Threads :
        /\ th[t].ctx.live
        /\ th[t].e.rec = 2
        /\ th[t].n = 1
        /\ ctxPool = <<>>
        /\ \A u \in Threads \ {t} : ~th[u].ctx.live
        /\ \E i \in 1..Len(sink) :
              IsWriteOf(i, 1) /\ Count("{", sink[i].text) = 1

\* the bytes that the last builder call appended
LastSegment == SubSeq(enc.buf, enc.last.start + 1, Len(enc.buf))

\* the bytes after the separator that encodeKey wrote first
LastField == Tail(LastSegment)

HasPrefix(s, p) == Len(s) >= Len(p) /\ SubSeq(s, 1, Len(p)) = p

\* the bytes that follow the key and its colon
LastValue ==
    LET k == enc.last.key
        n == IF LastField[1] = "\"" THEN Len(Escaped(k)) + 3 ELSE Len(k) + 1
    IN  SubSeq(LastField, n + 1, Len(LastField))

\* a non-empty key of letters, digits and _ - . # $ /
IdentKey(key) ==
    /\ key # <<>>
    /\ \A i \in 1..Len(key) :
         key[i] \in Letters \cup Digits \cup {"_", "-", ".", "#", "$", "/"}

\* C21: a key is written unquoted, as it is and followed by a colon, if and
\* only if it is not empty and made of letters, digits and _ - . # $ /;
\* every other key (the empty key, a key with a space) is written as a
\* quoted string followed by a colon.
C21_KeyQuoting ==
    enc.last.kind # "none" =>
        /\ (LastField[1] # "\"") <=> IdentKey(enc.last.key)
        /\ IdentKey(enc.last.key) =>
              HasPrefix(LastField, enc.last.key \o <<":">>)
        /\ ~IdentKey(enc.last.key) =>
              HasPrefix(LastField,
                        (<<"\"">> \o Escaped(enc.last.key)) \o <<"\"", ":">>)

\* a field whose key is "$k" was written bare, and then a field whose key
\* has a space was written quoted
C21_BareThenQuoted ==
    /\ enc.n = 2
    /\ HasPrefix(enc.buf, <<"{", "$", "k", ":">>)
    /\ enc.last.key = <<"k", " ", "m">>
    /\ HasPrefix(LastSegment, <<",", "\"", "k", " ", "m", "\"", ":">>)

\* C22: an Any field never makes the logging call panic: whatever value is
\* not nil, also one whose Error or String method panics (a nil pointer
\* receiver, a panicking method), Any returns with a rendering appended.
C22_AnyNeverPanics ==
    enc.last.kind = "Any" /\ enc.last.value.type # "nil" =>
        ~enc.panicked /\ LastValue # <<>>

\* the rules of Any in their order, and whether a value satisfies a rule
AnyRules ==
    <<"nil", "error", "Stringer", "string", "AppendFormat", "scalar",
      "generic">>

Satisfies(v, rule) ==
    CASE rule = "nil" -> v.type = "nil"
      [] rule = "error" -> "Error" \in v.methods
      [] rule = "Stringer" -> "String" \in v.methods
      [] rule = "string" -> v.type = "string"
      [] rule = "AppendFormat" -> "AppendFormat" \in v.methods
      [] rule = "scalar" ->
            v.type \in IntTypes \cup UintTypes \cup FloatTypes
                          \cup ComplexTypes \cup {"bool"}
      [] OTHER -> TRUE

\* the earliest rule that the value satisfies
EarliestRule(v) ==
    AnyRules[CHOOSE i \in 1..Len(AnyRules) :
                /\ Satisfies(v, AnyRules[i])
                /\ \A j \in 1..(i - 1) : ~Satisfies(v, AnyRules[j])]

Quoted(text) == (<<"\"">> \o Escaped(text)) \o <<"\"">>

\* the rendering that a rule prescribes
RuleRendering(v, rule) ==
    CASE rule = "nil" -> <<"n", "i", "l">>
      [] rule = "error" -> Quoted(MethodText("Error"))
      [] rule = "Stringer" -> Quoted(MethodText("String"))
      [] rule = "string" -> Quoted(v.s)
      [] rule = "AppendFormat" -> MethodText("AppendFormat")
      [] rule = "scalar" -> encodeScalar(<<>>, v).buf
      [] OTHER -> Quoted(SprintfV(v))

\* C23: Any renders its value by the earliest rule it satisfies, in the
\* order nil, error, Stringer, string, AppendFormat, known scalar, generic
\* text: the bytes after the key are that rule's rendering (and a call
\* panics only inside the method of the earliest rule).
C23_AnyOrder ==
    enc.last.kind = "Any" =>
        LET v == enc.last.value
            rule == EarliestRule(v)
        IN  IF enc.panicked
            THEN v.panics /\ rule \in {"error", "Stringer", "AppendFormat"}
            ELSE LastValue = RuleRendering(v, rule)

\* a value that is an error, a Stringer and an appendFormatter at once was
\* rendered as its quoted error message
C23_ErrorBeforeStringer ==
    /\ enc.last.kind = "Any"
    /\ ~enc.panicked
    /\ enc.last.value.methods = {"Error", "String", "AppendFormat"}
    /\ LastValue = <<"\"", "e", "r", "r", "\"">>

\* digits without their trailing zeros
RECURSIVE Trimmed(_)
Trimmed(ds) ==
    IF ds = <<>> THEN <<>>
    ELSE IF ds[Len(ds)] = "0" THEN Trimmed(SubSeq(ds, 1, Len(ds) - 1))
    ELSE ds

\* the fraction n / 10^width as a point and digits, nothing if it is zero
Fraction(n, width) ==
    LET t == Trimmed(PaddedDigits(n, width))
    IN  IF t = <<>> THEN <<>> ELSE <<".">> \o t

\* time.Duration.String() of a duration of s seconds and ns nanoseconds,
\* by the grammar of its documentation
DurationString(neg, s, ns) ==
    LET h == s \div 3600
        m == (s \div 60) % 60
        magnitude ==
            IF s = 0 /\ ns < Microsecond
            THEN DecimalDigits(ns) \o <<"n", "s">>
            ELSE IF s = 0 /\ ns < Millisecond
            THEN (DecimalDigits(ns \div 1000) \o Fraction(ns % 1000, 3))
                 \o (Micro \o <<"s">>)
            ELSE IF s = 0
            THEN (DecimalDigits(ns \div 1000000)
                    \o Fraction(ns % 1000000, 6)) \o <<"m", "s">>
            ELSE (((IF h > 0 THEN DecimalDigits(h) \o <<"h">> ELSE <<>>)
                    \o (IF s >= 60 THEN DecimalDigits(m) \o <<"m">> ELSE <<>>))
                    \o DecimalDigits(s % 60))
                 \o (Fraction(ns, 9) \o <<"s">>)
    IN  IF s = 0 /\ ns = 0 THEN <<"0", "s">>
        ELSE IF neg THEN <<"-">> \o magnitude ELSE magnitude

\* C24: a Duration field renders as time.Duration.String() of the value:
\* 0s for zero, one unit ns, us or ms below a second, hours, minutes and
\* seconds from a second on, leading zero units and trailing fractional
\* zeros omitted, '-' in front of a negative duration; the text fits in the
\* bytes reserved for it.
C24_DurationText ==
    enc.last.kind = "Duration" =>
        LET d == enc.last.value
        IN  /\ LastValue = DurationString(d.neg, d.i, d.j)
            /\ Len(LastValue) <= DurationReserved

\* 1200ms was rendered as 1.2s, after -72h3m0.5s
C24_TrimmedFraction ==
    /\ enc.n = 2
    /\ enc.last.kind = "Duration"
    /\ enc.last.value.i = 1 /\ enc.last.value.j = 200000000
    /\ LastValue = <<"1", ".", "2", "s">>
    /\ HasPrefix(enc.buf, <<"{", "k", ":", "-", "7", "2", "h", "3", "m", "0",
                            ".", "5", "s", ",">>)

\* the text of a floating-point number
FloatText(f) == encodeFloat(<<>>, f)

\* C25: a complex value renders by the zero-ness of its parts: the real part
\* alone if only it is not zero, the imaginary part and 'i' if only it is
\* not zero, real '+' imaginary 'i' if neither is zero, and the single
\* character 0 if both are.
C25_ComplexText ==
    enc.last.kind = "Complex128" =>
        LET r == enc.last.value.i
            i == enc.last.value.j
        IN  LastValue =
              IF r # 0 /\ i = 0 THEN FloatText(r)
              ELSE IF r = 0 /\ i # 0 THEN Append(FloatText(i), "i")
              ELSE IF r # 0 /\ i # 0
              THEN Append((Append(FloatText(r), "+")) \o FloatText(i), "i")
              ELSE <<"0">>

\* 1.5-2i was rendered as 1.5+-2i after 0+0i was rendered as 0
C25_BothPartsAfterZero ==
    /\ enc.n = 2
    /\ enc.last.kind = "Complex128"
    /\ LastValue = <<"1", ".", "5", "+", "-", "2", "i">>
    /\ HasPrefix(enc.buf, <<"{", "k", ":", "0", ",">>)

\* texts joined by commas
RECURSIVE Joined(_)
Joined(texts) ==
    IF texts = <<>> THEN <<>>
    ELSE IF Len(texts) = 1 THEN texts[1]
    ELSE (texts[1] \o <<",">>) \o Joined(Tail(texts))

Bracketed(texts) == (<<"[">> \o Joined(texts)) \o <<"]">>

\* the value of a lowercase hex digit
HexValue(ch) == CHOOSE v \in 0..15 : hex[v + 1] = ch

\* C26: a slice of n elements renders as '[' e1 ',' e2 ... ']' with every
\* element in its scalar encoding and n - 1 commas, [] if it is empty;
\* Bytes renders as 0x and two lowercase hex digits per byte, without
\* brackets or separators.
C26_SequenceText ==
    LET s == enc.last.value.s
    IN  /\ enc.last.kind = "Int32s" =>
              /\ LastValue =
                    Bracketed([i \in 1..Len(s) |-> encodeInt(<<>>, s[i])])
              /\ Count(",", LastValue) = IF s = <<>> THEN 0 ELSE Len(s) - 1
        /\ enc.last.kind = "Strings" =>
              LastValue =
                Bracketed([i \in 1..Len(s) |-> encodeString(<<>>, s[i])])
        /\ enc.last.kind = "Bytes" =>
              /\ Len(LastValue) = 2 + 2 * Len(s)
              /\ HasPrefix(LastValue, <<"0", "x">>)
              /\ \A i \in 1..Len(s) :
                    /\ LastValue[2 * i + 1] \in {hex[v] : v \in 1..16}
                    /\ LastValue[2 * i + 2] \in {hex[v] : v \in 1..16}
                    /\ 16 * HexValue(LastValue[2 * i + 1])
                         + HexValue(LastValue[2 * i + 2]) = s[i]

\* the bytes 0x31, 0x33, 0x78 were rendered as 0x313378, after the slice
\* 1, -2, 30 was rendered as [1,-2,30]
C26_BytesAfterInts ==
    /\ enc.n = 2
    /\ enc.last.kind = "Bytes"
    /\ LastValue = <<"0", "x", "3", "1", "3", "3", "7", "8">>
    /\ HasPrefix(enc.buf, <<"{", "k", ":", "[", "1", ",", "-", "2", ",", "3",
                            "0", "]", ",">>)

\* the step of output that pushes: it signals the condition variable, in
\* the same critical section, exactly when the push made the size 1
PushSignalsAtSizeOne ==
    pushed' # pushed =>
        /\ Len(queue') = Len(queue) + 1
        /\ IF Len(queue') = 1
           THEN /\ waiters' = SignalWaiters(waiters)
                /\ waiters # <<>> => cons'[Head(waiters)].pc = "woken"
           ELSE waiters' = waiters /\ cons' = cons

\* C27: no missed wakeup on push.  Under fair scheduling, with sink writes
\* that return, every entry pushed while the provider is running is
\* eventually passed to Writer.Write unless the provider stops running (no
\* later push, flush or shutdown is needed), and the producer signals the
\* condition variable exactly when its push returned size 1, inside the
\* critical section of the push.
C27_NoMissedWakeup ==
    /\ \A r \in 1..MaxOutputs :
         (r \in PushedRecs /\ running = 1)
            ~> (r \in WrittenRecs \/ running # 1)
    /\ [][PushSignalsAtSizeOne]_vars

\* two pushed records were written by the consumer with no Shutdown ever
\* called, and the consumer waits again on the empty queue
C27_WrittenWithoutShutdown ==
    /\ calls.shutdown = 0
    /\ running = 1
    /\ Len(pushed) = 2
    /\ PushedRecs \subseteq {ev.rec : ev \in {ConsumerWrites[i] :
                                            i \in 1..Len(ConsumerWrites)}}
    /\ waiters = <<1>>

\* the Write calls whose record was longer than putEntry's limit
BigWrites ==
    {i \in 1..Len(sink) : sink[i].k = "Write" /\ sink[i].len > MaxPooledLen}

\* C28: pool memory bound: putEntry retains an entry only if its buffer is
\* at most 256 bytes long, so every entry on the free list has a buffer of
\* at most 256 bytes, and no entry on the free list is the entry of a
\* record that was longer (such an entry is never handed out again).
C28_PoolBound ==
    \A i \in 1..Len(entryList) :
        /\ entryList[i].len <= MaxPooledLen
        /\ \A j \in BigWrites : entryList[i].rec # sink[j].rec

\* the first record was long: its entry was dropped after the write, and
\* the free list holds only the entry of the short second record
C28_BigEntryDropped ==
    /\ \E j \in BigWrites : sink[j].rec = 1
    /\ EntriesInUse = {}
    /\ Len(entryList) = 1
    /\ entryList[1].rec = 2
    /\ entryList[1].id = 2

\* the entries held by the stages, one element per holding: the producers
\* formatting or writing an entry, the pending queue, the batches of the
\* consumers, and the free list
RECURSIVE Batches(_)
Batches(c) == IF c = 0 THEN <<>> ELSE Batches(c - 1) \o cons[c].batch

RECURSIVE ProducerEntries(_)
ProducerEntries(t) ==
    IF t = 0 THEN <<>>
    ELSE ProducerEntries(t - 1)
         \o (IF th[t].e # NoEntry THEN <<th[t].e>> ELSE <<>>)

Holdings ==
    ((ProducerEntries(NumThreads) \o queue) \o Batches(Len(cons)))
    \o entryList

\* the entries that putEntry dropped: their record was long and no stage
\* holds it any more
DroppedRecs ==
    {sink[j].rec : j \in BigWrites}
    \ {Holdings[i].rec : i \in 1..Len(Holdings)}

\* C29: exclusive entry ownership: every entry is held by exactly one stage
\* (a producer, the pending queue, a consumer's batch, or the free list):
\* no entry is held twice, in one stage or in two, and every entry ever
\* allocated that was not dropped is held.
C29_ExclusiveOwnership ==
    /\ \A i, j \in 1..Len(Holdings) :
          Holdings[i].id = Holdings[j].id => i = j
    /\ {Holdings[i].id : i \in 1..Len(Holdings)} \subseteq 1..nextEntry
    /\ Len(Holdings) = nextEntry - Cardinality(DroppedRecs)

\* two entries are held at once by two stages: the consumer's batch holds
\* the recycled entry of the first record, a producer about to push holds a
\* newly allocated one, and the free list is empty
C29_TwoStages ==
    /\ \E t \in Threads : th[t].e.id = 2 /\ th[t].pc = "push"
    /\ \E c \in 1..Len(cons) :
          cons[c].batch # <<>> /\ cons[c].batch[1].id = 1
    /\ entryList = <<>>

\* the writers and the errors among the options of the last Start, in order
WritersOf(options) ==
    LET w == SelectSeq(options, LAMBDA o : o.k = "writer")
    IN  [i \in 1..Len(w) |-> w[i].v]

ErrorsOf(options) ==
    LET e == SelectSeq(options, LAMBDA o : o.k = "err")
    IN  [i \in 1..Len(e) |-> e[i].v]

\* C30: Logger.Start fails atomically: a Start whose options carry an error
\* closes every writer collected from the options, returns the first error,
\* and leaves the installed printer, the level and the flags as they were:
\* the current printer is neither shut down nor replaced, and no printer is
\* made or started.
StartFailsAtomically ==
    (logger'.n = logger.n + 1 /\ ErrorsOf(logger'.opts) # <<>>) =>
        /\ logger'.closed = logger.closed \o WritersOf(logger'.opts)
        /\ logger'.ret = <<"error", Head(ErrorsOf(logger'.opts))>>
        /\ logger'.printer = logger.printer
        /\ logger'.flags = logger.flags
        /\ loggerLevel' = loggerLevel
        /\ logger'.shut = logger.shut
        /\ logger'.made = logger.made
        /\ logger'.started = logger.started

C30_StartFailsAtomically == [][StartFailsAtomically]_vars

\* after a Start that installed printer 1 with the level Debug, a Start with
\* a writer and an error failed: it closed the writer and returned the
\* error, and printer 1, the level and the flags are still installed
C30_FailedAfterStarted ==
    /\ logger.n = 2
    /\ logger.opts = <<[k |-> "writer", v |-> 2], [k |-> "err", v |-> 2]>>
    /\ logger.ret = <<"error", 2>>
    /\ logger.closed = <<2>>
    /\ logger.printer = 1
    /\ logger.shut = <<0>>
    /\ logger.flags = LdefaultFlags
    /\ loggerLevel = LevelDebug

\* C32: size rotation of the file writer: a new file is opened as soon as
\* the bytes written to the current file since it was opened reach MaxSize,
\* whatever the flush goroutine does in between, so between two calls the
\* current file is shorter than MaxSize (and no file ever grows beyond
\* MaxSize plus one record).
C32_SizeRotation == logfile.size < FileMaxSize

\* C36: no sequence of Start and Shutdown calls interleaved with Print calls
\* ever panics: p.quit and p.wait are each closed at most once over the
\* provider's lifetime
C36_NeverPanics == ~panicked

\* the record ids that still wait to be written: in the queue, in the rest
\* of a consumer's batch, or held by a goroutine on its way to the queue or
\* to the synchronous Write
Unwritten(c) ==
    IF cons[c].pc = "inWrite" THEN Tail(cons[c].batch) ELSE cons[c].batch

PendingRecs ==
    {queue[i].rec : i \in 1..Len(queue)}
      \cup UNION {{Unwritten(c)[i].rec : i \in 1..Len(Unwritten(c))} :
                    c \in 1..Len(cons)}
      \cup {th[t].e.rec : t \in {u \in Threads :
                                   th[u].pc \in {"load", "push", "syncWrite"}}}

\* C37: each record is passed to Writer.Write at most once: no two Write
\* calls carry the same record, whoever made them (run-loop drain, flush
\* or quit drain, synchronous path), and a record that still waits in the
\* queue, in a batch or in a producer's hands has not been written
C37_WrittenOnce ==
    /\ \A i, j \in 1..Len(sink) :
          (i < j /\ sink[i].k = "Write" /\ sink[j].k = "Write")
            => sink[i].rec # sink[j].rec
    /\ \A i \in 1..Len(sink) :
          sink[i].k = "Write" => sink[i].rec \notin PendingRecs

\* a consumer has written one record in a flush drain after a record was
\* written by the synchronous path
C37_SyncThenFlushDrain ==
    /\ Len(sink) >= 2
    /\ \E i, j \in 1..Len(sink) :
          /\ i < j
          /\ sink[i].k = "Write" /\ sink[i].by <= NumThreads
          /\ sink[j].k = "Write" /\ sink[j].by > NumThreads
    /\ \E c \in 1..Len(cons) : cons[c].mode = "flush" /\ cons[c].pc = "inWrite"

\* goroutine t calls getEntry in this step (Print enters output)
CallsGetEntry(t) == th[t].pc = "idle" /\ th'[t].pc = "load"

\* C40: the entry free list is LIFO: getEntry takes the head of a non-empty
\* free list and allocates only when the list is empty, putEntry links the
\* entry it retains in front of the others, and no step that takes the pool
\* lock touches what the queue lock guards
C40_FreeListLifo ==
    [][/\ \A t \in Threads :
            CallsGetEntry(t) =>
              IF entryList # <<>>
                THEN /\ th'[t].e.id = Head(entryList).id
                     /\ entryList' = Tail(entryList)
                     /\ nextEntry' = nextEntry
                ELSE /\ th'[t].e.id = nextEntry + 1
                     /\ nextEntry' = nextEntry + 1
                     /\ entryList' = <<>>
       /\ Len(entryList') > Len(entryList) => Tail(entryList') = entryList
       /\ (entryList' # entryList \/ nextEntry' # nextEntry)
            => (queue' = queue /\ waiters' = waiters)]_vars

\* a third record is being formatted in an entry that getEntry took from a
\* free list of two: two entries were allocated and written, the goroutine
\* holds one of them and the other is still on the list
C40_TookLastRetained ==
    \E t \in Threads :
       /\ th[t].pc = "load"
       /\ th[t].rec = 3
       /\ Len(entryList) = 1
       /\ nextEntry = 2
       /\ Len(sink) >= 2

\* the line that ends the stack-trace block of a fatal record
EndStackTrace ==
    <<"=", "=", "=", "=", "=", "=", "=", "=", "=", "=", " ", "E", "N", "D",
      " ", "S", "T", "A", "C", "K", " ", "T", "R", "A", "C", "E", " ", "=",
      "=", "=", "=", "=", "=", "=", "=", "=", "=", "\n">>

HasSuffix(s, p) ==
    Len(s) >= Len(p) /\ SubSeq(s, Len(s) - Len(p) + 1, Len(s)) = p

\* C38: every byte slice passed to Writer.Write is non-empty and ends with a
\* newline; it starts with a header of at least the four bytes "[L] ", a
\* fatal record ends with the END STACK TRACE line, the newline after the
\* header, prefix and message is there iff they do not end with one, and
\* output never takes its early return for an empty buffer
C38_NewlineTerminated ==
    /\ \A i \in 1..Len(sink) :
          sink[i].k = "Write" =>
            /\ Len(sink[i].text) > 0
            /\ sink[i].text[Len(sink[i].text)] = "\n"
            /\ sink[i].header >= 4
            /\ SubSeq(sink[i].text, 1, 2)
                 = <<"[", getLevelByte(sink[i].level)>>
            /\ SubSeq(sink[i].text, sink[i].header - 1, sink[i].header)
                 = <<"]", " ">>
            /\ sink[i].level = LevelFatal
                 => HasSuffix(sink[i].text, EndStackTrace)
    /\ \A i \in 1..Len(sink), t \in Threads :
          (IsWriteOf(i, th[t].rec) /\ th[t].args # NoArgs) =>
            LET body == BufferWithBody(NewEntry(1), th[t].args)
            IN  sink[i].text
                  = body
                      \o (IF body[Len(body)] = "\n" THEN <<>> ELSE <<"\n">>)
                      \o (IF sink[i].level = LevelFatal
                          THEN StackBlock ELSE <<>>)
    /\ \A t \in Threads : th[t].ret # "empty"

\* the sink has been handed a record with an empty message, no prefix and
\* the shortest header, which consists of that header and a newline
C38_HeaderOnlyWritten ==
    \E i \in 1..Len(sink), t \in Threads :
        /\ sink[i].k = "Write"
        /\ sink[i].rec = th[t].rec
        /\ th[t].args.msg = <<>>
        /\ th[t].args.flags = 0
        /\ sink[i].header = 4
        /\ Len(sink[i].text) = 5

\* goroutine t is inside Flush
InFlush(t) == th[t].pc \in {"flushSend", "flushSignal", "flushRecv"}

\* C33: every call to Flush eventually returns, under fair scheduling and
\* terminating sink writes, whatever the consumer is doing and also when the
\* printer has not been started, has been shut down, or is sync-only
C33_FlushReturns ==
    \A t \in Threads : InFlush(t) ~> (th[t].ret = "flushed")

\* C34 as stated: Writer.Write is never invoked on the sink after
\* Writer.Close has been invoked on it, in any interleaving of Print, Start
\* and Shutdown, Prints issued after Shutdown has returned included.
C34_NoWriteAfterClose ==
    \A i, j \in 1..Len(sink) :
        ~(i < j /\ sink[i].k = "Close" /\ sink[j].k = "Write")

\* the consumer that made the call of the sink ev has closed p.wait and exited
ByExitedConsumer(ev) ==
    /\ ev.by > NumThreads
    /\ cons[ev.by - NumThreads].pc = "done"

\* C34 as amended: Writer.Write is never invoked after Writer.Close by the
\* consumer loop that acknowledged the Shutdown (the one that closed p.wait),
\* in any interleaving of Print, Start and Shutdown; a Print that finds the
\* provider not running, issued after Shutdown has returned or racing with
\* it, is written synchronously also after Close.
C34_StoppedConsumerSilent ==
    \A i, j \in 1..Len(sink) :
        (i < j /\ sink[i].k = "Close" /\ sink[j].k = "Write")
          => ~ByExitedConsumer(sink[j])

\* the consumer wrote a record and exited, Shutdown closed the sink, and a
\* later Print has written its record synchronously
C34_SyncWriteAfterClose ==
    /\ Len(sink) = 3
    /\ sink[1].k = "Write" /\ ByExitedConsumer(sink[1])
    /\ sink[2].k = "Close"
    /\ sink[3].k = "Write" /\ sink[3].by <= NumThreads
    /\ \A t \in Threads : th[t].pc = "idle"

\* records a and b (a issued first) were printed by the same goroutine: a
\* goroutine remembers the record of its last Print, so the one that printed
\* b printed a too iff no other goroutine remembers a
ByOneProducer(a, b) ==
    \E t \in Threads :
        /\ th[t].rec = b
        /\ \A u \in Threads \ {t} : th[u].rec # a

\* C35: per-producer order: if one goroutine calls Print(a) and then
\* Print(b), a is passed to Writer.Write before b, also when a Start or
\* Shutdown between or during the two calls sends one through the queue
\* and the other through the synchronous path
C35_ProducerOrder ==
    \A j \in 1..Len(sink) :
        (sink[j].k = "Write" /\ sink[j].rec = 2 /\ ByOneProducer(1, 2))
          => \E i \in 1..(j - 1) : IsWriteOf(i, 1)

\* C31: Logger.Start with a writer replaces the printer in this order: the
\* previously installed printer is shut down (its pending entries drained,
\* its sink closed), then the new printer is installed, then it is started;
\* the records printed before Start have reached the old sink
C31_ReplaceOrder ==
    /\ \A t \in Threads :
          (th[t].pc = "startNew" /\ logger.printer > PipelinePrinter) =>
            /\ \E i \in 1..Len(sink) : sink[i].k = "Close"
            /\ \A r \in th[t].snap : \E i \in 1..Len(sink) : IsWriteOf(i, r)
    /\ \A i \in 1..Len(logger.started) :
          /\ logger.started[i] <= logger.printer
          /\ Len(logger.shut) >= i
          /\ logger.shut[i] = logger.started[i] - 1

\* C39: the bytes of an entry are fixed when output has formatted it: what
\* Writer.Write receives for a record is what its Print handed to output,
\* also when the Context whose encoder held the message has been put into
\* the pool and used again before the entry is written
C39_BytesFixedAtPrint ==
    \A i \in 1..Len(sink) :
        sink[i].k = "Write" => sink[i].text = sink[i].said

\* the only Context made so far was used for two records with different
\* fields, both pushed before the consumer popped them, and the consumer is
\* writing the first: its Context was put into the pool, taken again and
\* filled with the second record's bytes before this Write
C39_ReusedBeforeWrite ==
    \E c \in 1..Len(cons) :
        /\ cons[c].pc = "inWrite"
        /\ Len(cons[c].batch) = 2
        /\ cons[c].batch[1].rec = 1
        /\ cons[c].batch[2].rec = 2
        /\ cons[c].batch[1].text = <<"{">> \o FieldsText(1) \o <<"}", " ">>
                                     \o Message
        /\ cons[c].batch[2].text = <<"{">> \o FieldsText(2) \o <<"}", " ">>
                                     \o Message
        /\ Len(ctxPool) = 1
        /\ ctxPool[1].id = 1
        /\ ctxPool[1].buf = cons[c].batch[2].text
        /\ \A t \in Threads : th[t].ctx.id = 0
        /\ sink[Len(sink)].text = cons[c].batch[1].text

============================================================================
